---- MODULE Spec2Model ----
(***************************************************************************)
(* Chat2Cash: the multi-tenant storage layer (DatabaseStorage) and the     *)
(* HTTP handlers built on it, over a PostgreSQL database used at its       *)
(* default isolation level (READ COMMITTED: every statement sees the rows  *)
(* committed before the statement started; an UPDATE re-checks its WHERE   *)
(* clause against the latest committed version of the row).                *)
(***************************************************************************)
EXTENDS Integers, Sequences, FiniteSets, TLC, Bags

\* ---------------------------------------------------------------------
\* Bounds of the model
\* ---------------------------------------------------------------------
NumOrders == 3      \* order ids are 1..NumOrders, handed out in creation order
NumProcs  == 2      \* concurrent POST /api/generate-invoice request tasks
MaxCalls  == 3      \* storage calls begun in one run
MaxMessages == 3    \* messages of one chat log
MaxTextLen == 3     \* characters of one message's text
MaxChars  == 4      \* the caps handed to applySlidingWindow are 0..MaxChars
NumJobs   == 1      \* extraction job ids are 1..NumJobs, handed out in enqueue order
MaxRequests == 3    \* HTTP requests received by the router in one run

\* ---------------------------------------------------------------------
\* Domains
\* ---------------------------------------------------------------------
Orgs     == {"A", "B"}
OrderIds == 1..NumOrders
CustIds  == 1..NumOrders         \* an order insert creates at most one customer
Procs    == 1..NumProcs
JobIds   == 1..NumJobs

\* SQL NULL of the nullable integer / timestamp columns
NULL == 0

\* date.getFullYear() at the time of the call
CurrentYear == 2026

NoName == ""       \* an absent / null / empty customer name (all falsy in JS)

Rice == [product_name |-> "Basmati Rice", quantity |-> 5, price |-> 120]

\* The extraction payloads the callers hand to addOrder / addChatOrder
Extractions ==
  { [customer_name |-> "Rahul", items |-> <<Rice>>, total |-> 600],
    [customer_name |-> NoName,  items |-> <<>>,     total |-> NULL] }

RECURSIVE Max(_)
Max(S) == IF S = {} THEN NULL
          ELSE LET x == CHOOSE y \in S : TRUE
                   m == Max(S \ {x})
               IN  IF x > m THEN x ELSE m

\* ---------------------------------------------------------------------
\* Invoice engine: numbering
\* ---------------------------------------------------------------------
RECURSIVE Digits(_)
Digits(n) == IF n < 10 THEN <<n>> ELSE Append(Digits(n \div 10), n % 10)

\* String(n).padStart(3, '0')
RECURSIVE padStart(_, _)
padStart(s, width) == IF Len(s) >= width THEN s ELSE padStart(<<0>> \o s, width)

NoInvoice == [invoice_number |-> <<>>, customer_name |-> NoName]

generateInvoiceData(order, invoiceSequence) ==
  [invoice_number |-> <<"INV", CurrentYear>> \o padStart(Digits(invoiceSequence), 3),
   customer_name  |-> IF order.customer_name = NoName THEN "Customer"
                      ELSE order.customer_name]

\* ---------------------------------------------------------------------
\* State
\* ---------------------------------------------------------------------
VARIABLES
  orders,       \* ordersTable: id -> row (exists = FALSE: no such row)
  customers,    \* customersTable: id -> row
  orderItems,   \* orderItemsTable: order id -> the rows with that orderId
  now,          \* the wall clock, as last read by new Date()
  pc,           \* per request task: position inside generateAndAttachInvoice
  gen,          \* per request task: the locals of the open transaction
  edit,         \* per request task: the open updateChatOrderDetails transaction
  auth,         \* per request task: position inside authHandler's bearer path
  ext,          \* the locals of the extraction function that is running
  chatIds,      \* chat extractions: the ids computed and their inserts
  down,         \* the worker process: position inside shutdownQueue
  ret,          \* outcome of the call that completed last
  issued,       \* per organization: generateAndAttachInvoice commits so far
  calls,        \* storage calls begun so far
  jobs,         \* the "order-extraction" queue: job id -> job (state "none": no such job;
                \* stored: the orders the processor has written for the job)
  runs,         \* per job: processor runs since the job was last scheduled
  webhooks,     \* the "webhook-delivery" queue: a bag of job data (5 deliveries run at a time)
  retryReq,     \* the POST /admin/dlq/:jobId/retry request in flight (NULL: none)
  llm,          \* the extractWithTool call in progress
  users,        \* usersTable: user id -> row
  req,          \* the request passing through the router: req / res of Express
  hits          \* the limiters' stores: <<max, key>> -> hits in the current window

vars == <<orders, customers, orderItems, now, pc, gen, edit, auth, ext, chatIds, down,
          ret, issued, calls,
          jobs, runs, webhooks, retryReq, llm, users, req, hits>>

NoOrder ==
  [exists |-> FALSE, organizationId |-> "A", customerId |-> 1,
   extractionType |-> "chat_log", rawAiResponse |-> <<>>, totalAmount |-> NULL,
   deliveryAddress |-> "", status |-> "pending", invoice |-> NoInvoice,
   invoiceSequence |-> NULL, deletedAt |-> NULL]

NoCustomer == [exists |-> FALSE, organizationId |-> "A", name |-> NoName]

\* no job under this id
NoJob == [state |-> "none", orgId |-> "A", type |-> "chat_log", webhookUrl |-> FALSE,
          correlationId |-> "", attemptsMade |-> 0, returnvalue |-> NULL,
          failedReason |-> "", stored |-> 0]

\* a tool input without content
NoInput == [customerName |-> NoName, totalAmount |-> NULL, items |-> <<>>]

\* no extractWithTool call yet.  attempt is the loop variable, sdkRetries the
\* retries the SDK has made inside the current messages.create; requests,
\* delays, onlyServerErrors and noToolUse record what the call has done
NoCall == [state |-> "idle", orgId |-> "A", attempt |-> 0, sdkRetries |-> 0,
           requests |-> 0, delays |-> 0, onlyServerErrors |-> TRUE,
           noToolUse |-> FALSE, result |-> NoInput, error |-> 0]

NoGen == [orgId |-> "A", orderId |-> 1, customer_name |-> NoName,
          nextSequenceNumber |-> NULL]

\* `Customer ${i + 1}` and `Product A${i}` of the seeding loop, i = 0, 1, ...
SeedCustomers == <<"Customer 1", "Customer 2", "Customer 3", "Customer 4">>
SeedProducts  == <<"Product A0", "Product A1", "Product A2", "Product A3">>

\* The rows seedTestOrders(db, orgId, count) inserts in iteration i
seedCustomer(orgId, i) ==
  [exists |-> TRUE, organizationId |-> orgId, name |-> SeedCustomers[i + 1]]

seedOrder(orgId, customerId, i) ==
  [NoOrder EXCEPT !.exists = TRUE, !.organizationId = orgId,
                  !.customerId = customerId,
                  !.extractionType = "chat_log",
                  !.rawAiResponse = <<[product_name |-> SeedProducts[i + 1],
                                       quantity |-> i + 1, price |-> 100 * (i + 1)]>>,
                  !.totalAmount = 100 * (i + 1) * (i + 1),
                  !.status = "pending"]

seedItems(orgId, i) ==
  <<[organizationId |-> orgId, productName |-> SeedProducts[i + 1],
     quantity |-> i + 1, pricePerUnit |-> 100 * (i + 1),
     totalPrice |-> 100 * (i + 1) * (i + 1)]>>

\* no transaction of updateChatOrderDetails open in a request task
NoEdit ==
  [stage |-> "idle", orgId |-> "A", id |-> 1, seen |-> <<>>,
   updates |-> [set |-> {}, status |-> "", items |-> <<>>, total |-> NULL,
                delivery_address |-> "", customer_name |-> NoName]]

\* ---------------------------------------------------------------------
\* Identities: users, bearer tokens, API keys, organizations' tiers
\* ---------------------------------------------------------------------
NoOrg    == ""         \* organization_id IS NULL / req.orgId undefined
NoHeader == ""         \* a header that is absent or empty (both falsy)
NoUser   == [exists |-> FALSE, organizationId |-> NoOrg, role |-> "member"]

UserIds == {"u1", "u2", "u3"}

\* seedTestOrg: the owner of organization A; a member of B; u3 has signed
\* up with the identity provider and has never called the API
SeedUsers ==
  [u \in UserIds |->
     IF u = "u1" THEN [exists |-> TRUE, organizationId |-> "A", role |-> "owner"]
     ELSE IF u = "u2" THEN [exists |-> TRUE, organizationId |-> "B", role |-> "member"]
     ELSE NoUser]

\* a request task outside authHandler
NoAuth == [stage |-> "idle", bearer |-> NoHeader, userId |-> "", status |-> 0]

\* no extraction function is running
NoExt == [fn |-> "none", messages |-> <<>>, maxChars |-> 0, pruned |-> <<>>,
          parsed |-> 0, confidence |-> 0]

\* no chat extraction has computed an id
NoIds == [pending |-> <<>>, inserted |-> {}, rejected |-> 0]

\* the worker process after start(): both workers poll, nothing is closed
Running == [stage |-> "running", closed |-> <<>>, busyAtSignal |-> FALSE]

\* crypto.createHash("sha256").update(key).digest("hex")
sha256(key) == <<"sha256", key>>

\* apiKeysTable: the active key of seedTestOrg and a revoked key of B
ApiKeyRows ==
  { [organizationId |-> "A", keyHash |-> sha256("key-A"),     isActive |-> TRUE],
    [organizationId |-> "B", keyHash |-> sha256("key-B-old"), isActive |-> FALSE] }

\* what a client can send as x-api-key
ApiKeyHeaders == {NoHeader, "key-A", "key-B-old", "key-unknown"}

\* what a client can send as Authorization: the bearer token of a user, a
\* token that does not verify, or nothing
BearerHeaders == {NoHeader, "jwt-u1", "jwt-u2", "jwt-u3", "jwt-bad"}

\* the header pairs of the requests of the model
Credentials ==
  { [apiKey |-> k, bearer |-> NoHeader] : k \in {NoHeader, "key-A"} }
    \cup { [apiKey |-> NoHeader, bearer |-> b] : b \in BearerHeaders }
    \cup { [apiKey |-> "key-B-old",   bearer |-> "jwt-u2"],
           [apiKey |-> "key-unknown", bearer |-> "jwt-u1"],
           [apiKey |-> "key-A",       bearer |-> "jwt-u2"] }

\* jwtVerify(token, JWKS): the payload's sub, or "" when it throws
jwtVerify(token) ==
  IF token = "jwt-u1" THEN "u1"
  ELSE IF token = "jwt-u2" THEN "u2"
  ELSE IF token = "jwt-u3" THEN "u3"
  ELSE ""

\* organizationsTable.tier (seedTestOrg: "pro"; the column default: "free")
OrgTier == [A |-> "pro", B |-> "free"]

\* the routers' org-scoped routes of the model, with the middleware in front
\* of each handler
Routes ==
  { [name |-> "GET /orders",               limiter |-> "general", redactPII |-> TRUE],
    [name |-> "GET /orders/:id",           limiter |-> "general", redactPII |-> TRUE],
    [name |-> "POST /extract-order",       limiter |-> "extract", redactPII |-> FALSE],
    [name |-> "POST /async/extract-order", limiter |-> "extract", redactPII |-> FALSE] }

\* no request in the router
NoRequest ==
  [stage |-> "idle", n |-> 0, route |-> "GET /orders", limiter |-> "general",
   redactPII |-> FALSE, apiKey |-> NoHeader, bearer |-> NoHeader,
   orgId |-> NoOrg, user |-> "", status |-> 0,
   body |-> [t |-> "null", v |-> <<>>], sent |-> [t |-> "null", v |-> <<>>]]

\* TIER_LIMITS, set through RATE_LIMIT_FREE / _PRO / _ENTERPRISE: three
\* distinct maxima
TIER_LIMITS == [free |-> 1, pro |-> 2, enterprise |-> 3]

ReadMultiplier == 5

\* the keys of the limiters' stores: one limiter per max, one counter per key
LimiterKeys ==
  ({TIER_LIMITS[t] : t \in DOMAIN TIER_LIMITS}
     \cup {ReadMultiplier * TIER_LIMITS[t] : t \in DOMAIN TIER_LIMITS})
    \X (Orgs \cup {"ip"})

\* The organizations of the seeded database, in seeding order
SeedOrgs == <<"A", "B">>

\* The database after seedTestOrders(db, org, 1) for each organization on
\* cleared tables (ids in insertion order); no request is open
Init ==
  /\ orders     = [o \in OrderIds |-> IF o \in DOMAIN SeedOrgs
                                       THEN seedOrder(SeedOrgs[o], o, 0) ELSE NoOrder]
  /\ customers  = [c \in CustIds |-> IF c \in DOMAIN SeedOrgs
                                      THEN seedCustomer(SeedOrgs[c], 0) ELSE NoCustomer]
  /\ orderItems = [o \in OrderIds |-> IF o \in DOMAIN SeedOrgs
                                       THEN seedItems(SeedOrgs[o], 0) ELSE <<>>]
  /\ now        = 1
  /\ pc         = [p \in Procs |-> "idle"]
  /\ gen        = [p \in Procs |-> NoGen]
  /\ edit       = [p \in Procs |-> NoEdit]
  /\ auth       = [p \in Procs |-> NoAuth]
  /\ ext        = NoExt
  /\ chatIds    = NoIds
  /\ down       = Running
  /\ ret        = [op |-> "none", orgId |-> "A", id |-> 1, result |-> "none", status |-> 0]
  /\ issued     = [g \in Orgs |-> 0]
  /\ calls      = 0
  /\ jobs       = [j \in JobIds |-> NoJob]
  /\ runs       = [j \in JobIds |-> 0]
  /\ webhooks   = EmptyBag
  /\ retryReq   = NULL
  /\ llm        = NoCall
  /\ users      = SeedUsers
  /\ req        = NoRequest
  /\ hits       = [k \in LimiterKeys |-> 0]

\* ---------------------------------------------------------------------
\* Predicates of the WHERE clauses
\* ---------------------------------------------------------------------
\* Visible without the organization predicate
VisibleAnyOrg(orgId, id) ==
  /\ id \in OrderIds
  /\ orders[id].exists
  /\ orders[id].deletedAt = NULL

\* Visible without the soft-delete predicate
VisibleDeleted(orgId, id) ==
  /\ id \in OrderIds
  /\ orders[id].exists
  /\ orders[id].organizationId = orgId

\* eq(id), eq(organizationId, orgId), isNull(deletedAt)
Visible(orgId, id) ==
  /\ id \in OrderIds
  /\ orders[id].exists
  /\ orders[id].organizationId = orgId
  /\ orders[id].deletedAt = NULL

\* OwnedBy without the organization predicate
OwnedByAnyOrg(orgId, id) ==
  /\ id \in OrderIds
  /\ orders[id].exists

\* eq(id), eq(organizationId, orgId)      (no deletedAt predicate)
OwnedBy(orgId, id) ==
  /\ id \in OrderIds
  /\ orders[id].exists
  /\ orders[id].organizationId = orgId

\* randomUUID(): a fresh id, modelled as the lowest unused one
FreshOrder    == CHOOSE o \in OrderIds : ~orders[o].exists /\ \A x \in 1..(o-1) : orders[x].exists
FreshCustomer == CHOOSE c \in CustIds : ~customers[c].exists /\ \A x \in 1..(c-1) : customers[x].exists
HasFreeOrder    == \E o \in OrderIds : ~orders[o].exists
HasFreeCustomer == \E c \in CustIds : ~customers[c].exists

\* ---------------------------------------------------------------------
\* Row mappers
\* ---------------------------------------------------------------------
Undefined == [id |-> NULL]

\* itemRows.map(...) of mapToExtractedChatOrder
RECURSIVE mapChatItems(_)
mapChatItems(itemRows) ==
  IF itemRows = <<>> THEN <<>>
  ELSE <<[product_name |-> Head(itemRows).productName,
          quantity     |-> Head(itemRows).quantity,
          price        |-> Head(itemRows).pricePerUnit]>>
       \o mapChatItems(Tail(itemRows))

\* itemRows.map(...) of mapToExtractedOrder
RECURSIVE mapItems(_)
mapItems(itemRows) ==
  IF itemRows = <<>> THEN <<>>
  ELSE <<[name         |-> Head(itemRows).productName,
          quantity     |-> Head(itemRows).quantity,
          pricePerUnit |-> Head(itemRows).pricePerUnit,
          totalPrice   |-> Head(itemRows).totalPrice]>>
       \o mapItems(Tail(itemRows))

mapToExtractedChatOrder(id, orderRow, customerRow, itemRows) ==
  [id               |-> id,
   customer_name    |-> customerRow.name,
   items            |-> IF Len(itemRows) > 0 THEN mapChatItems(itemRows)
                        ELSE orderRow.rawAiResponse,
   delivery_address |-> orderRow.deliveryAddress,
   total            |-> orderRow.totalAmount,
   status           |-> orderRow.status,
   invoice          |-> orderRow.invoice]

mapToExtractedOrder(id, orderRow, customerRow, itemRows) ==
  [id             |-> id,
   customerName   |-> customerRow.name,
   items          |-> IF Len(itemRows) > 0 THEN mapItems(itemRows)
                      ELSE orderRow.rawAiResponse,
   totalAmount    |-> orderRow.totalAmount,
   status         |-> orderRow.status]

\* ---------------------------------------------------------------------
\* Read operations of DatabaseStorage
\* ---------------------------------------------------------------------
\* ORDER BY created_at DESC over a set of order ids (ids grow with creation)
RECURSIVE NewestFirst(_)
NewestFirst(S) == IF S = {} THEN <<>>
                  ELSE <<Max(S)>> \o NewestFirst(S \ {Max(S)})

\* .limit(limit).offset(offset)
Page(s, limit, offset) ==
  SubSeq(s, offset + 1, IF offset + limit < Len(s) THEN offset + limit ELSE Len(s))

getChatOrder(orgId, id) ==
  IF Visible(orgId, id)
  THEN mapToExtractedChatOrder(id, orders[id], customers[orders[id].customerId], orderItems[id])
  ELSE Undefined

getOrder(orgId, id) ==
  IF Visible(orgId, id)
  THEN mapToExtractedOrder(id, orders[id], customers[orders[id].customerId], orderItems[id])
  ELSE Undefined

ChatRows(orgId) ==
  {o \in OrderIds : Visible(orgId, o) /\ orders[o].extractionType = "chat_log"}

getChatOrders(orgId, limit, offset) ==
  LET ids == Page(NewestFirst(ChatRows(orgId)), limit, offset)
  IN  [i \in 1..Len(ids) |->
         mapToExtractedChatOrder(ids[i], orders[ids[i]],
                                 customers[orders[ids[i]].customerId], orderItems[ids[i]])]

getOrders(orgId) ==
  LET ids == NewestFirst({o \in OrderIds :
                 Visible(orgId, o) /\ orders[o].extractionType = "single_message"})
  IN  [i \in 1..Len(ids) |->
         mapToExtractedOrder(ids[i], orders[ids[i]],
                             customers[orders[ids[i]].customerId], orderItems[ids[i]])]

\* statusFilter = "" is the omitted argument
getChatOrdersCount(orgId, statusFilter) ==
  Cardinality({o \in ChatRows(orgId) :
                 statusFilter = "" \/ orders[o].status = statusFilter})

RECURSIVE SumTotals(_)
SumTotals(S) == IF S = {} THEN 0
                ELSE LET o == CHOOSE x \in S : TRUE
                     IN  orders[o].totalAmount + SumTotals(S \ {o})

getTotalRevenue(orgId) == SumTotals(ChatRows(orgId))

\* ---------------------------------------------------------------------
\* HTTP read handlers (req.orgId is the authenticated organization)
\* ---------------------------------------------------------------------
\* AppError / globalErrorHandler: {status: "error", message}
ErrorBody(statusCode, message) == [status |-> statusCode, message |-> message]

\* anything that is neither a ZodError, an AppError nor a body SyntaxError
globalErrorHandler(err) ==
  IF err.kind = "ZodError" THEN ErrorBody(400, "Validation Error")
  ELSE IF err.kind = "AppError" THEN ErrorBody(err.statusCode, err.message)
  ELSE IF err.kind = "SyntaxError" THEN ErrorBody(400, "Invalid JSON payload")
  ELSE ErrorBody(500, "Internal Server Error")

AppError(message, statusCode) ==
  [kind |-> "AppError", statusCode |-> statusCode, message |-> message]

\* GET /api/orders/:id
getOrderById(orgId, id) ==
  LET order == getChatOrder(orgId, id)
  IN  IF order = Undefined THEN globalErrorHandler(AppError("Order not found", 404))
      ELSE [status |-> 200, message |-> "", body |-> order]

\* GET /api/orders/:id/download
downloadInvoice(orgId, id) ==
  LET order == getChatOrder(orgId, id)
  IN  IF order = Undefined THEN globalErrorHandler(AppError("Order not found", 404))
      ELSE IF order.invoice = NoInvoice
           THEN globalErrorHandler(AppError("No invoice generated for this order", 404))
           ELSE [status |-> 302, message |-> "", body |-> order.invoice.invoice_number]

\* GET /api/stats
getStats(orgId) ==
  [total_orders     |-> getChatOrdersCount(orgId, ""),
   pending_orders   |-> getChatOrdersCount(orgId, "pending"),
   confirmed_orders |-> getChatOrdersCount(orgId, "confirmed"),
   total_revenue    |-> getTotalRevenue(orgId)]

\* ---------------------------------------------------------------------
\* Inputs of the mutations
\* ---------------------------------------------------------------------
\* The single-message extractions handed to addOrder
SingleExtractions ==
  { [customerName |-> "Rahul", totalAmount |-> 600,
     items |-> <<[name |-> "Basmati Rice", quantity |-> 5,
                  pricePerUnit |-> 120, totalPrice |-> 600]>>] }

Dal == [product_name |-> "Toor Dal", quantity |-> 2, price |-> 95]

\* PATCH bodies; "set" lists the fields that are not undefined
Patches ==
  { [set |-> {"status"}, status |-> "fulfilled", items |-> <<>>, total |-> NULL,
     delivery_address |-> "", customer_name |-> NoName],
    [set |-> {"items", "total", "delivery_address", "customer_name"}, status |-> "",
     items |-> <<Dal>>, total |-> 190, delivery_address |-> "42 MG Road",
     customer_name |-> "Priya"] }

\* The status values handed to updateOrderStatus
StatusInputs == {"cancelled"}

\* An invoice computed outside the storage layer and handed to attachInvoice
ForeignInvoice == [invoice_number |-> <<"INV", CurrentYear, 0, 4, 2>>,
                   customer_name |-> "Customer"]

\* what the caller of a storage call or handler gets back
Result(op, orgId, id, result, status) ==
  [op |-> op, orgId |-> orgId, id |-> id, result |-> result, status |-> status]

\* a call that is not generateAndAttachInvoice: the request tasks of
\* POST /api/generate-invoice stay where they are
GenIdle == UNCHANGED <<pc, gen, issued, edit, auth, ext, chatIds, down>>

\* a step outside the queues and outside the LLM client
QueueIdle == UNCHANGED <<jobs, runs, webhooks, retryReq>>
LlmIdle   == UNCHANGED llm

\* a step outside the router's middleware chain
HttpIdle  == UNCHANGED <<users, req, hits>>

\* one more storage call
Called == /\ calls < MaxCalls
          /\ calls' = calls + 1

\* ---------------------------------------------------------------------
\* Mutations of DatabaseStorage (each one a single transaction whose first
\* statement takes the row lock of the order it writes)
\* ---------------------------------------------------------------------
\* order_items rows inserted by addOrder
RECURSIVE orderItemRows(_, _)
orderItemRows(orgId, items) ==
  IF items = <<>> THEN <<>>
  ELSE <<[organizationId |-> orgId,
          productName    |-> Head(items).name,
          quantity       |-> Head(items).quantity,
          pricePerUnit   |-> Head(items).pricePerUnit,
          totalPrice     |-> Head(items).totalPrice]>>
       \o orderItemRows(orgId, Tail(items))

\* order_items rows inserted by updateChatOrderDetails
RECURSIVE chatItemRows(_, _)
chatItemRows(orgId, items) ==
  IF items = <<>> THEN <<>>
  ELSE <<[organizationId |-> orgId,
          productName    |-> Head(items).product_name,
          quantity       |-> Head(items).quantity,
          pricePerUnit   |-> Head(items).price,
          totalPrice     |-> IF Head(items).price # NULL
                             THEN Head(items).quantity * Head(items).price
                             ELSE NULL]>>
       \o chatItemRows(orgId, Tail(items))

AddOrder(orgId, order) ==
  /\ Called
  /\ HasFreeOrder /\ HasFreeCustomer
  /\ LET customerId == FreshCustomer
         id         == FreshOrder
     IN  /\ customers' = [customers EXCEPT ![customerId] =
               [exists |-> TRUE, organizationId |-> orgId,
                name |-> IF order.customerName = NoName THEN "Unknown Customer"
                         ELSE order.customerName]]
         /\ orders' = [orders EXCEPT ![id] =
               [NoOrder EXCEPT !.exists = TRUE, !.organizationId = orgId,
                               !.customerId = customerId,
                               !.extractionType = "single_message",
                               !.rawAiResponse = order.items,
                               !.totalAmount = order.totalAmount,
                               !.status = "pending"]]
         /\ orderItems' = [orderItems EXCEPT ![id] = orderItemRows(orgId, order.items)]
  /\ ret' = Result("addOrder", orgId, FreshOrder, "row", 201)
  /\ UNCHANGED now /\ GenIdle

\* the customers matched by the lookup of addChatOrder
lookupConditions(orgId, order) ==
  {c \in CustIds : /\ customers[c].exists
                   /\ customers[c].organizationId = orgId
                   /\ (order.customer_name # NoName
                         => customers[c].name = order.customer_name)}

AddChatOrder(orgId, order) ==
  /\ Called
  /\ HasFreeOrder
  /\ LET existing == lookupConditions(orgId, order)
         id       == FreshOrder
     IN  /\ IF existing # {}
            THEN \E customerId \in existing :       \* LIMIT 1 without ORDER BY
                   /\ customers' = customers
                   /\ orders' = [orders EXCEPT ![id] =
                        [NoOrder EXCEPT !.exists = TRUE, !.organizationId = orgId,
                                        !.customerId = customerId,
                                        !.totalAmount = order.total,
                                        !.status = "pending"]]
            ELSE /\ HasFreeCustomer
                 /\ customers' = [customers EXCEPT ![FreshCustomer] =
                      [exists |-> TRUE, organizationId |-> orgId,
                       name |-> IF order.customer_name = NoName THEN "Unknown Customer"
                                ELSE order.customer_name]]
                 /\ orders' = [orders EXCEPT ![id] =
                      [NoOrder EXCEPT !.exists = TRUE, !.organizationId = orgId,
                                      !.customerId = FreshCustomer,
                                      !.totalAmount = order.total,
                                      !.status = "pending"]]
  /\ ret' = Result("addChatOrder", orgId, FreshOrder, "row", 201)
  /\ UNCHANGED <<orderItems, now>> /\ GenIdle

UpdateOrderStatus(orgId, id, status) ==
  /\ Called
  /\ IF Visible(orgId, id)
     THEN /\ orders' = [orders EXCEPT ![id].status = status]
          /\ ret' = Result("updateOrderStatus", orgId, id, "row", 0)
     ELSE /\ orders' = orders
          /\ ret' = Result("updateOrderStatus", orgId, id, "undefined", 0)
  /\ UNCHANGED <<customers, orderItems, now>> /\ GenIdle /\ QueueIdle /\ LlmIdle /\ HttpIdle

\* DELETE /api/orders/:id; new Date() reads a clock that never runs backwards
DeleteOrder(orgId, id) ==
  /\ Called
  /\ \E date \in {now, now + 1} :
       /\ now' = date
       /\ IF OwnedBy(orgId, id)
          THEN /\ orders' = [orders EXCEPT ![id].deletedAt = date]
               /\ ret' = Result("deleteOrder", orgId, id, "true", 200)
          ELSE /\ orders' = orders
               /\ ret' = Result("deleteOrder", orgId, id, "false", 404)
  /\ UNCHANGED <<customers, orderItems>> /\ GenIdle /\ QueueIdle /\ LlmIdle /\ HttpIdle

AttachInvoice(orgId, orderId, invoice) ==
  /\ Called
  /\ IF Visible(orgId, orderId)
     THEN /\ orders' = [orders EXCEPT ![orderId].invoice = invoice]
          /\ ret' = Result("attachInvoice", orgId, orderId, "row", 0)
     ELSE /\ orders' = orders
          /\ ret' = Result("attachInvoice", orgId, orderId, "undefined", 0)
  /\ UNCHANGED <<customers, orderItems, now>> /\ GenIdle /\ QueueIdle /\ LlmIdle /\ HttpIdle

\* the column assignments collected in dbUpdates
dbUpdates(row, updates) ==
  [row EXCEPT
     !.totalAmount     = IF "total" \in updates.set THEN updates.total ELSE @,
     !.deliveryAddress = IF "delivery_address" \in updates.set
                         THEN updates.delivery_address ELSE @,
     !.status          = IF "status" \in updates.set THEN updates.status ELSE @]

\* PATCH /api/orders/:id and PATCH /api/orders/:id/edit
UpdateChatOrderDetails(orgId, id, updates) ==
  /\ Called
  /\ IF Visible(orgId, id)
     THEN LET customerId == orders[id].customerId
          IN  /\ orders' = [orders EXCEPT ![id] = dbUpdates(@, updates)]
              /\ orderItems' =
                   IF "items" \in updates.set
                   THEN [orderItems EXCEPT ![id] = chatItemRows(orgId, updates.items)]
                   ELSE orderItems
              /\ customers' =
                   IF /\ "customer_name" \in updates.set
                      /\ updates.customer_name # NoName
                      /\ updates.customer_name # customers[customerId].name
                      /\ customers[customerId].organizationId = orgId
                   THEN [customers EXCEPT ![customerId].name = updates.customer_name]
                   ELSE customers
              /\ ret' = Result("updateChatOrderDetails", orgId, id, "row", 200)
     ELSE /\ UNCHANGED <<orders, orderItems, customers>>
          /\ ret' = Result("updateChatOrderDetails", orgId, id, "undefined", 404)
  /\ UNCHANGED now /\ GenIdle /\ QueueIdle /\ LlmIdle /\ HttpIdle

\* POST /api/extract: the extraction the LLM client returned is stored
extractOrder(orgId, order) ==
  AddOrder(orgId, order) /\ QueueIdle /\ LlmIdle /\ HttpIdle

\* POST /api/extract-order
extractChatOrder(orgId, order) ==
  AddChatOrder(orgId, order) /\ QueueIdle /\ LlmIdle /\ HttpIdle

\* The status values of the order lifecycle
OrderStatuses == {"pending", "confirmed", "fulfilled", "cancelled"}

\* req.body.status of PATCH /api/orders/:id; "" is a body without status
StatusBodies == {"", "confirmed", "shipped"}

\* PATCH /api/orders/:id: orderController.updateOrderStatus
updateOrderStatusHandler(orgId, id, status) ==
  IF status = ""                                  \* !status
  THEN /\ Called
       /\ ret' = Result("updateOrderStatus", orgId, id, "Status is required",
                        globalErrorHandler(AppError("Status is required", 400)).status)
       /\ UNCHANGED <<orders, customers, orderItems, now>> /\ GenIdle /\ QueueIdle /\ LlmIdle /\ HttpIdle
  ELSE /\ UpdateChatOrderDetails(orgId, id,
            [set |-> {"status"}, status |-> status, items |-> <<>>, total |-> NULL,
             delivery_address |-> "", customer_name |-> NoName])

\* ---------------------------------------------------------------------
\* POST /api/generate-invoice: generateInvoice -> generateAndAttachInvoice.
\* The transaction issues its statements one at a time; other requests run
\* between them.  Its only write is the final UPDATE, directly followed by
\* COMMIT, so the UPDATE and the COMMIT are one step: until the commit the
\* new row version is invisible to every other statement.
\* ---------------------------------------------------------------------
\* the maximum taken over the whole table instead of the organization
maxSeqAllOrgs(orgId) ==
  Max({orders[o].invoiceSequence : o \in {x \in OrderIds : orders[x].exists}})

\* SELECT max(invoice_sequence) FROM orders WHERE organization_id = orgId
maxSeq(orgId) ==
  Max({orders[o].invoiceSequence : o \in {x \in OrderIds : OwnedBy(orgId, x)}})

\* first statement: the order joined with its customer
GenerateSelect(p, orgId, orderId) ==
  /\ pc[p] = "idle"
  /\ \A q \in 1..(p-1) : pc[q] # "idle"     \* the lowest free task takes the request
  /\ Called
  /\ IF Visible(orgId, orderId)
     THEN /\ pc'  = [pc EXCEPT ![p] = "selected"]
          /\ gen' = [gen EXCEPT ![p] =
                       [orgId |-> orgId, orderId |-> orderId,
                        customer_name |-> customers[orders[orderId].customerId].name,
                        nextSequenceNumber |-> NULL]]
          /\ ret' = ret
     ELSE \* tx.rollback() throws TransactionRollbackError out of db.transaction
          /\ UNCHANGED <<pc, gen>>
          /\ ret' = Result("generateInvoice", orgId, orderId, "rollback",
                           globalErrorHandler([kind |-> "TransactionRollbackError"]).status)
  /\ UNCHANGED <<orders, customers, orderItems, now, issued, edit, auth, ext, chatIds, down>> /\ QueueIdle /\ LlmIdle /\ HttpIdle

\* second statement: the highest sequence of the organization, plus one
GenerateReadMax(p) ==
  /\ pc[p] = "selected"
  /\ pc'  = [pc EXCEPT ![p] = "maxRead"]
  /\ gen' = [gen EXCEPT ![p].nextSequenceNumber = maxSeq(gen[p].orgId) + 1]
  /\ UNCHANGED <<orders, customers, orderItems, now, ret, issued, calls, edit, auth, ext, chatIds, down>>
  /\ QueueIdle /\ LlmIdle /\ HttpIdle

\* the row written by the UPDATE of generateAndAttachInvoice
invoiceUpdate(row, invoiceData, nextSequenceNumber) ==
  [row EXCEPT !.invoice = invoiceData,
              !.invoiceSequence = nextSequenceNumber,
              !.status = "confirmed"]

\* UPDATE ... WHERE id = orderId AND organization_id = orgId; COMMIT; then the
\* handler renders and uploads the PDF, which can fail
GenerateUpdate(p, pdfOk) ==
  /\ pc[p] = "maxRead"
  /\ LET orgId       == gen[p].orgId
         orderId     == gen[p].orderId
         invoiceData == generateInvoiceData(gen[p], gen[p].nextSequenceNumber)
     IN  /\ OwnedBy(orgId, orderId)
         /\ orders' = [orders EXCEPT ![orderId] =
                         invoiceUpdate(@, invoiceData, gen[p].nextSequenceNumber)]
         /\ issued' = [issued EXCEPT ![orgId] = @ + 1]
  /\ ret' = Result("generateInvoice", gen[p].orgId, gen[p].orderId, "row",
                   IF pdfOk THEN 201
                   ELSE globalErrorHandler([kind |-> "Error"]).status)
  /\ pc'  = [pc EXCEPT ![p] = "idle"]
  /\ gen' = [gen EXCEPT ![p] = NoGen]
  /\ UNCHANGED <<customers, orderItems, now, calls, edit, auth, ext, chatIds, down>> /\ QueueIdle /\ LlmIdle /\ HttpIdle

\* ---------------------------------------------------------------------
\* Specification
\* ---------------------------------------------------------------------
Next ==
  \/ \E orgId \in Orgs, order \in SingleExtractions : extractOrder(orgId, order)
  \/ \E orgId \in Orgs, order \in Extractions : extractChatOrder(orgId, order)
  \/ \E orgId \in Orgs, id \in OrderIds, status \in StatusInputs :
        UpdateOrderStatus(orgId, id, status)
  \/ \E orgId \in Orgs, id \in OrderIds : DeleteOrder(orgId, id)
  \/ \E orgId \in Orgs, id \in OrderIds : AttachInvoice(orgId, id, ForeignInvoice)
  \/ \E orgId \in Orgs, id \in OrderIds, updates \in Patches :
        UpdateChatOrderDetails(orgId, id, updates)
  \/ \E p \in Procs, orgId \in Orgs, id \in OrderIds : GenerateSelect(p, orgId, id)
  \/ \E p \in Procs : GenerateReadMax(p)
  \/ \E p \in Procs, pdfOk \in BOOLEAN : GenerateUpdate(p, pdfOk)

Spec == Init /\ [][Next]_vars

\* ---------------------------------------------------------------------
\* updateChatOrderDetails statement by statement.  The transaction runs at
\* READ COMMITTED: its statements see the rows committed when each of them
\* starts, its own writes become visible to the others at COMMIT, and the
\* UPDATE of the order row holds that row's lock until the transaction ends.
\* ---------------------------------------------------------------------
\* bodies of PATCH /api/orders/:id/edit that supply items
EditPatches ==
  { [NoEdit.updates EXCEPT !.set = {"items"}, !.items = <<Dal>>],
    [NoEdit.updates EXCEPT !.set = {"items", "status"}, !.items = <<Rice, Dal>>,
                           !.status = "confirmed"],
    [NoEdit.updates EXCEPT !.set = {"items"}] }

\* the stages in which a transaction holds the lock of its order row
LockHolding == {"updated", "deleted", "inserted"}

\* without the UPDATE of the order row in front of the item statements
rowNeverLocked(id) == FALSE

\* the order row is locked by the UPDATE of an open transaction
rowLocked(id) ==
  \E q \in Procs : edit[q].stage \in LockHolding /\ edit[q].id = id

\* tx.update(ordersTable).set(dbUpdates).where(...).returning()
EditRunUpdate(p, orgId, id, updates) ==
  IF ~Visible(orgId, id)
  THEN /\ edit' = [edit EXCEPT ![p] = NoEdit]                 \* return undefined
       /\ ret'  = Result("updateChatOrderDetails", orgId, id, "undefined", 404)
  ELSE /\ edit' = [edit EXCEPT ![p] =
                     [stage |-> IF rowLocked(id) THEN "waiting" ELSE "updated",
                      orgId |-> orgId, id |-> id, seen |-> <<>>, updates |-> updates]]
       /\ ret'  = ret

\* a request enters db.transaction and issues the UPDATE
EditBegin(p, orgId, id, updates) ==
  /\ edit[p].stage = "idle"
  /\ \A q \in 1..(p-1) : edit[q].stage # "idle"
  /\ Called
  /\ EditRunUpdate(p, orgId, id, updates)
  /\ UNCHANGED <<orders, customers, orderItems, now, pc, gen, issued, auth, ext, chatIds, down>>
  /\ QueueIdle /\ LlmIdle /\ HttpIdle

\* the lock is released: the blocked UPDATE re-checks its WHERE and goes on
EditAcquire(p) ==
  /\ edit[p].stage = "waiting"
  /\ ~rowLocked(edit[p].id)
  /\ EditRunUpdate(p, edit[p].orgId, edit[p].id, edit[p].updates)
  /\ UNCHANGED <<orders, customers, orderItems, now, pc, gen, issued, calls, auth, ext, chatIds, down>>
  /\ QueueIdle /\ LlmIdle /\ HttpIdle

\* tx.delete(orderItemsTable).where(eq(orderItemsTable.orderId, id))
EditDeleteItems(p) ==
  /\ edit[p].stage = "updated"
  /\ "items" \in edit[p].updates.set
  /\ edit' = [edit EXCEPT ![p].stage = "deleted", ![p].seen = orderItems[edit[p].id]]
  /\ UNCHANGED <<orders, customers, orderItems, now, pc, gen, issued, calls, ret, auth, ext, chatIds, down>>
  /\ QueueIdle /\ LlmIdle /\ HttpIdle

\* tx.insert(orderItemsTable).values(updates.items.map(...)).returning()
EditInsertItems(p) ==
  /\ edit[p].stage = "deleted"
  /\ edit[p].updates.items # <<>>
  /\ edit' = [edit EXCEPT ![p].stage = "inserted"]
  /\ UNCHANGED <<orders, customers, orderItems, now, pc, gen, issued, calls, ret, auth, ext, chatIds, down>>
  /\ QueueIdle /\ LlmIdle /\ HttpIdle

\* the rows left after a DELETE that saw the rows of seen
afterDelete(rows, seen) ==
  SelectSeq(rows, LAMBDA r : ~(\E i \in DOMAIN seen : seen[i] = r))

\* the callback returns; COMMIT makes the transaction's writes visible
EditCommit(p) ==
  /\ \/ edit[p].stage = "inserted"
     \/ edit[p].stage = "deleted" /\ edit[p].updates.items = <<>>
     \/ edit[p].stage = "updated" /\ "items" \notin edit[p].updates.set
  /\ LET orgId      == edit[p].orgId
         id         == edit[p].id
         updates    == edit[p].updates
         customerId == orders[id].customerId
     IN  /\ orders' = [orders EXCEPT ![id] = dbUpdates(@, updates)]
         /\ orderItems' =
              IF "items" \in updates.set
              THEN [orderItems EXCEPT ![id] =
                      afterDelete(@, edit[p].seen) \o chatItemRows(orgId, updates.items)]
              ELSE orderItems
         /\ customers' =
              IF /\ "customer_name" \in updates.set
                 /\ updates.customer_name # NoName
                 /\ updates.customer_name # customers[customerId].name
                 /\ customers[customerId].organizationId = orgId
              THEN [customers EXCEPT ![customerId].name = updates.customer_name]
              ELSE customers
         /\ ret' = Result("updateChatOrderDetails", orgId, id, "row", 200)
  /\ edit' = [edit EXCEPT ![p] = NoEdit]
  /\ UNCHANGED <<now, pc, gen, issued, calls, auth, ext, chatIds, down>>
  /\ QueueIdle /\ LlmIdle /\ HttpIdle

\* a statement rejects (constraint, connection): db.transaction rolls back
\* and rethrows
EditFails(p) ==
  /\ edit[p].stage \in LockHolding
  /\ edit' = [edit EXCEPT ![p] = NoEdit]
  /\ ret'  = Result("updateChatOrderDetails", edit[p].orgId, edit[p].id, "Error",
                    globalErrorHandler([kind |-> "Error"]).status)
  /\ UNCHANGED <<orders, customers, orderItems, now, pc, gen, issued, calls, auth, ext, chatIds, down>>
  /\ QueueIdle /\ LlmIdle /\ HttpIdle

EditNext ==
  \/ \E p \in Procs, orgId \in Orgs, id \in OrderIds, updates \in EditPatches :
        EditBegin(p, orgId, id, updates)
  \/ \E p \in Procs : EditAcquire(p)
  \/ \E p \in Procs : EditDeleteItems(p)
  \/ \E p \in Procs : EditInsertItems(p)
  \/ \E p \in Procs : EditCommit(p)
  \/ \E p \in Procs : EditFails(p)

EditSpec == Init /\ [][EditNext]_vars

\* The order routes alone: create, patch status, edit, delete
OrderApiNext ==
  \/ \E orgId \in Orgs, order \in Extractions : extractChatOrder(orgId, order)
  \/ \E orgId \in Orgs, id \in OrderIds, status \in StatusBodies :
        updateOrderStatusHandler(orgId, id, status)
  \/ \E orgId \in Orgs, id \in OrderIds, updates \in Patches :
        UpdateChatOrderDetails(orgId, id, updates)
  \/ \E orgId \in Orgs, id \in OrderIds : DeleteOrder(orgId, id)

OrderApiSpec == Init /\ [][OrderApiNext]_vars

\* ---------------------------------------------------------------------
\* Queues and workers (queueService).  The job state machine is the queue
\* library's: waiting -> active -> completed, or on a thrown error
\* delayed (-> waiting) while attempts remain and failed once they are
\* exhausted; failed jobs are kept (removeOnFail: false).
\* ---------------------------------------------------------------------
Attempts    == 3      \* extractionQueue defaultJobOptions.attempts
Concurrency == 3      \* extraction worker concurrency

StorageIdle == UNCHANGED <<orders, customers, orderItems, now, calls, ret>>

\* payloads of the "deliver" jobs
CompletedPayload(jobId, orderId) ==
  [jobId |-> jobId, status |-> "completed", orderId |-> orderId, error |-> ""]

FailedPayload(jobId, message) ==
  [jobId |-> jobId, status |-> "failed", orderId |-> NULL, error |-> message]

\* err.message of what the processor throws
LlmFailure     == "Claude API failed after 4 attempts"
EnqueueFailure == "Connection is closed."

\* the data of a "deliver" job
DeliverData(correlationId, payload) ==
  [correlationId |-> correlationId, payload |-> payload]

\* The job data the async extract routes enqueue, with the x-correlation-id
\* header of the request
JobInputs ==
  { [orgId |-> "A", type |-> "chat_log",       webhookUrl |-> TRUE,
     xCorrelationId |-> "cid-1"],
    [orgId |-> "B", type |-> "single_message", webhookUrl |-> FALSE,
     xCorrelationId |-> NoHeader] }

\* requestContext.getStore() outside requestContext.run
NoStore == ""

\* crypto.randomUUID(): an id no earlier request has, numbered by the jobs
\* enqueued so far
randomUUID ==
  "uuid-" \o ToString(Cardinality({j \in JobIds : jobs[j].state # "none"}) + 1)

\* the correlationId middleware: the store it runs the request under
correlationId(header) == IF header # NoHeader THEN header ELSE randomUUID

getCorrelationId(store) == IF store = NoStore THEN "no-context" ELSE store

\* a line written through the pino logger under store; explicit is the
\* correlationId field of the logged object ("": the object has none, and
\* the mixin's field stands)
logLine(explicit, msg, store) ==
  [msg |-> msg,
   correlationId |-> IF explicit # "" THEN explicit ELSE getCorrelationId(store)]

\* log(msg, source) of the logger module
log(msg, store) == logLine("", msg, store)

\* the store the worker's callbacks run under: the workers are started at
\* boot, outside any request, and nothing calls requestContext.run for a job
WorkerStore == NoStore

FreshJob   == CHOOSE j \in JobIds : jobs[j].state = "none" /\ \A x \in 1..(j-1) : jobs[x].state # "none"
HasFreeJob == \E j \in JobIds : jobs[j].state = "none"

\* extractionQueue.add("extract", data) and the 202 of the controller
addExtractionJob(orgId, type, webhookUrl, store) ==
  /\ Called
  /\ HasFreeJob
  /\ jobs' = [jobs EXCEPT ![FreshJob] =
        [NoJob EXCEPT !.state = "waiting", !.orgId = orgId, !.type = type,
                      !.webhookUrl = webhookUrl,
                      !.correlationId = getCorrelationId(store)]]
  /\ runs' = [runs EXCEPT ![FreshJob] = 0]
  /\ ret' = Result("addExtractionJob", orgId, FreshJob, "queued", 202)
  /\ UNCHANGED <<orders, customers, orderItems, now, webhooks, retryReq>>
  /\ GenIdle /\ LlmIdle

\* POST /api/async/extract and /api/async/extract-order, behind the
\* correlationId middleware
asyncExtract(data) ==
  /\ addExtractionJob(data.orgId, data.type, data.webhookUrl,
                      correlationId(data.xCorrelationId))
  /\ HttpIdle

\* job.id as the processor sees it
JobIdOf(j) == ToString(j)

\* a processor that tags what it enqueues with the job's id
cidJobId(j) == JobIdOf(j)

\* job.data.correlationId ?? job.id
cid(j) == IF jobs[j].correlationId # "" THEN jobs[j].correlationId ELSE JobIdOf(j)

\* the worker takes a waiting job and starts the processor on it
WorkerTake(j) ==
  /\ jobs[j].state = "waiting"
  /\ Cardinality({x \in JobIds : jobs[x].state = "active"}) < Concurrency
  /\ jobs' = [jobs EXCEPT ![j].state = "active"]
  /\ runs' = [runs EXCEPT ![j] = @ + 1]
  /\ UNCHANGED <<webhooks, retryReq>>
  /\ StorageIdle /\ GenIdle /\ LlmIdle /\ HttpIdle

\* the backoff delay of a job has passed
Promote(j) ==
  /\ jobs[j].state = "delayed"
  /\ jobs' = [jobs EXCEPT ![j].state = "waiting"]
  /\ UNCHANGED <<runs, webhooks, retryReq>>
  /\ StorageIdle /\ GenIdle /\ LlmIdle /\ HttpIdle

\* WillRetry with one attempt more than configured
WillRetryOnceMore(attemptsMade) == attemptsMade <= Attempts

\* the library retries while attempts remain
WillRetry(attemptsMade) == attemptsMade < Attempts

\* The processor threw err: the library records the attempt, and the
\* worker's "failed" listener runs (on every failed attempt); its
\* webhookQueue.add either succeeds or rejects into the .catch
attemptFailed(j, message, enqueued, written) ==
  LET attemptsMade == jobs[j].attemptsMade + 1
  IN  /\ jobs' = [jobs EXCEPT ![j].attemptsMade = attemptsMade,
                              ![j].failedReason = message,
                              ![j].stored = @ + written,
                              ![j].state = IF WillRetry(attemptsMade) THEN "delayed"
                                           ELSE "failed"]
      /\ webhooks' = IF jobs[j].webhookUrl /\ enqueued
                     THEN webhooks (+) SetToBag({DeliverData(cid(j),
                                                             FailedPayload(j, message))})
                     ELSE webhooks

\* what the LLM client can return for a job of this type
JobExtractions(j) ==
  IF jobs[j].type = "single_message" THEN SingleExtractions ELSE Extractions

\* savedOrder = await storage.addOrder / addChatOrder
persist(j, order) ==
  IF jobs[j].type = "single_message" THEN AddOrder(jobs[j].orgId, order)
  ELSE AddChatOrder(jobs[j].orgId, order)

\* what the processor itself writes to the log for job j
ProcessorLines(j) ==
  {logLine(cid(j), "Processing extraction job", WorkerStore)}
    \cup (IF jobs[j].webhookUrl
          THEN {logLine(cid(j), "Webhook delivery enqueued", WorkerStore)}
          ELSE {})

\* what the "completed" listener writes
CompletedLines(j) == {logLine("", "Extraction job completed", WorkerStore)}

\* what the LLM client writes to the log while the processor awaits it
ClientLines(done) ==
  {log("Claude API call starting", WorkerStore)}
    \cup (IF done THEN {log("Extraction complete", WorkerStore)} ELSE {})

\* what the "failed" listener writes
FailedLines(j, enqueued) ==
  {logLine("", "Extraction job failed", WorkerStore)}
    \cup (IF jobs[j].webhookUrl /\ ~enqueued
          THEN {logLine("", "Failed to enqueue failure webhook", WorkerStore)}
          ELSE {})

\* processor: the LLM client throws
ProcessorLlmThrows(j, enqueued) ==
  /\ jobs[j].state = "active"
  /\ attemptFailed(j, LlmFailure, enqueued, 0)
  /\ UNCHANGED <<runs, retryReq>>
  /\ StorageIdle /\ GenIdle /\ LlmIdle /\ HttpIdle

\* processor: extraction and storage write succeed and webhookQueue.add,
\* if there is a webhookUrl, succeeds
ProcessorCompletes(j) ==
  /\ jobs[j].state = "active"
  /\ \E order \in JobExtractions(j) : persist(j, order)
  /\ jobs' = [jobs EXCEPT ![j].state = "completed", ![j].returnvalue = FreshOrder,
                          ![j].stored = @ + 1]
  /\ webhooks' = IF jobs[j].webhookUrl
                 THEN webhooks (+) SetToBag({DeliverData(cid(j),
                                                         CompletedPayload(j, FreshOrder))})
                 ELSE webhooks
  /\ UNCHANGED <<runs, retryReq>> /\ LlmIdle /\ HttpIdle

\* processor: extraction and storage write succeed, then the awaited
\* webhookQueue.add rejects
ProcessorEnqueueThrows(j, enqueued) ==
  /\ jobs[j].state = "active"
  /\ jobs[j].webhookUrl
  /\ \E order \in JobExtractions(j) : persist(j, order)
  /\ attemptFailed(j, EnqueueFailure, enqueued, 1)
  /\ UNCHANGED <<runs, retryReq>> /\ LlmIdle /\ HttpIdle

\* the request the webhook worker's fetch sends for a "deliver" job, on
\* each of its attempts
fetch(data) ==
  [method |-> "POST", XCorrelationId |-> data.correlationId, body |-> data.payload]

\* webhook worker: a delivery attempt on a queued job, which sends
\* fetch(data).  A failed attempt with attempts left puts the job back; a
\* delivered job and a job whose attempts are exhausted leave the queue
DeliverWebhook(outcome) ==
  /\ outcome \in {"delivered", "exhausted"}
  /\ \E data \in BagToSet(webhooks) : webhooks' = webhooks (-) SetToBag({data})
  /\ UNCHANGED <<jobs, runs, retryReq>> /\ StorageIdle /\ GenIdle /\ LlmIdle /\ HttpIdle

\* job.retry(): the failed job goes back to waiting under its own id; the
\* library version decides whether attemptsMade restarts
retry(j, resetAttemptsMade) ==
  /\ jobs' = [jobs EXCEPT ![j].state = "waiting",
                          ![j].failedReason = "",
                          ![j].attemptsMade = IF resetAttemptsMade THEN 0 ELSE @]
  /\ runs' = [runs EXCEPT ![j] = 0]

AbsentJob == NumJobs + 1       \* an id no job ever has

\* Job.fromId gives a job
Found(jobId) == jobId \in JobIds /\ jobs[jobId].state # "none"

\* InFailedState without the state test
InAnyState(jobId) == Found(jobId)

\* state === "failed"
InFailedState(jobId) == Found(jobId) /\ jobs[jobId].state = "failed"

\* getFailedJobs(): extractionQueue.getFailed mapped to the listed fields
getFailedJobs ==
  { [jobId |-> j, type |-> jobs[j].type, orgId |-> jobs[j].orgId,
     error |-> jobs[j].failedReason, attempts |-> jobs[j].attemptsMade,
     correlationId |-> jobs[j].correlationId] :
      j \in {x \in JobIds : jobs[x].state = "failed"} }

\* GET /admin/dlq for a caller of orgId: the jobs of the response
dlqList(orgId) == getFailedJobs

\* POST /admin/dlq/:jobId/retry, retryFailedJob up to its getState()
RetryLookup(orgId, jobId) ==
  /\ Called
  /\ retryReq = NULL
  /\ IF InFailedState(jobId)
     THEN /\ retryReq' = jobId
          /\ ret' = ret
     ELSE /\ retryReq' = NULL
          /\ ret' = Result("retryFailedJob", orgId, jobId, "false", 404)
  /\ UNCHANGED <<orders, customers, orderItems, now, jobs, runs, webhooks>>
  /\ GenIdle /\ LlmIdle /\ HttpIdle

\* retryFailedJob from job.retry() on; retry() rejects if the job has left
\* the failed set meanwhile, and the route has no handler for a rejection
RetryReschedule(resetAttemptsMade) ==
  /\ retryReq # NULL
  /\ IF jobs[retryReq].state = "failed"
     THEN /\ retry(retryReq, resetAttemptsMade)
          /\ ret' = Result("retryFailedJob", jobs[retryReq].orgId, retryReq, "true", 200)
     ELSE /\ UNCHANGED <<jobs, runs>>
          /\ ret' = Result("retryFailedJob", jobs[retryReq].orgId, retryReq, "rejected", 0)
  /\ retryReq' = NULL
  /\ UNCHANGED <<orders, customers, orderItems, now, calls, webhooks>>
  /\ GenIdle /\ LlmIdle /\ HttpIdle

\* POST /admin/dlq/retry-all: every job of the failed set is retried
retryAllFailedJobs(orgId, resetAttemptsMade) ==
  /\ Called
  /\ LET failed == {j \in JobIds : jobs[j].state = "failed"}
     IN  /\ jobs' = [j \in JobIds |->
                       IF j \in failed
                       THEN [jobs[j] EXCEPT !.state = "waiting", !.failedReason = "",
                                            !.attemptsMade = IF resetAttemptsMade THEN 0
                                                             ELSE @]
                       ELSE jobs[j]]
         /\ runs' = [j \in JobIds |-> IF j \in failed THEN 0 ELSE runs[j]]
         /\ ret' = Result("retryAllFailedJobs", orgId, Cardinality(failed), "count", 200)
  /\ UNCHANGED <<orders, customers, orderItems, now, webhooks, retryReq>>
  /\ GenIdle /\ LlmIdle /\ HttpIdle

QueueNext ==
  \/ \E data \in JobInputs : asyncExtract(data)
  \/ \E j \in JobIds : WorkerTake(j)
  \/ \E j \in JobIds : Promote(j)
  \/ \E j \in JobIds, enqueued \in BOOLEAN : ProcessorLlmThrows(j, enqueued)
  \/ \E j \in JobIds : ProcessorCompletes(j)
  \/ \E j \in JobIds, enqueued \in BOOLEAN : ProcessorEnqueueThrows(j, enqueued)
  \/ \E outcome \in {"delivered", "exhausted"} : DeliverWebhook(outcome)
  \/ \E orgId \in Orgs, jobId \in JobIds \cup {AbsentJob} : RetryLookup(orgId, jobId)
  \/ \E resetAttemptsMade \in BOOLEAN : RetryReschedule(resetAttemptsMade)
  \/ \E orgId \in Orgs, resetAttemptsMade \in BOOLEAN :
        retryAllFailedJobs(orgId, resetAttemptsMade)

QueueSpec == Init /\ [][QueueNext]_vars

\* The queues and workers over organizations that have no orders yet: the
\* database after clearAllTables and seedTestOrg, with nothing seeded into
\* orders, customers and order_items
ClearedInit ==
  /\ orders     = [o \in OrderIds |-> NoOrder]
  /\ customers  = [c \in CustIds |-> NoCustomer]
  /\ orderItems = [o \in OrderIds |-> <<>>]
  /\ now        = 1
  /\ pc         = [p \in Procs |-> "idle"]
  /\ gen        = [p \in Procs |-> NoGen]
  /\ edit       = [p \in Procs |-> NoEdit]
  /\ auth       = [p \in Procs |-> NoAuth]
  /\ ext        = NoExt
  /\ chatIds    = NoIds
  /\ down       = Running
  /\ ret        = [op |-> "none", orgId |-> "A", id |-> 1, result |-> "none", status |-> 0]
  /\ issued     = [g \in Orgs |-> 0]
  /\ calls      = 0
  /\ jobs       = [j \in JobIds |-> NoJob]
  /\ runs       = [j \in JobIds |-> 0]
  /\ webhooks   = EmptyBag
  /\ retryReq   = NULL
  /\ llm        = NoCall
  /\ users      = SeedUsers
  /\ req        = NoRequest
  /\ hits       = [k \in LimiterKeys |-> 0]

WorkerSpec == ClearedInit /\ [][QueueNext]_vars

\* ---------------------------------------------------------------------
\* worker.ts: the worker process from start() to the end of shutdown().
\* down.stage is the await shutdownQueue stands at, down.closed the handles
\* closed so far, in closing order.
\* ---------------------------------------------------------------------
\* a step of shutdown() alone
QueuesIdle ==
  /\ QueueIdle /\ StorageIdle /\ LlmIdle /\ HttpIdle
  /\ UNCHANGED <<pc, gen, issued, edit, auth, ext, chatIds>>

\* the jobs the extraction worker is processing
Processing == {j \in JobIds : jobs[j].state = "active"}

\* worker.close(true): resolves without waiting for the jobs in progress
closeForced(processing) == TRUE

\* worker.close(): resolves when the jobs in progress have finished
closeResolves(processing) == processing = {}

\* the extraction worker fetches the next job while it is not closing
WorkerFetches(j) ==
  /\ down.stage = "running"
  /\ WorkerTake(j)

\* the webhook worker delivers while it is not closed
WebhookWorkerDelivers(outcome) ==
  /\ down.stage \in {"running", "worker.close"}
  /\ DeliverWebhook(outcome)

\* process.on("SIGTERM" / "SIGINT"): shutdown() calls shutdownQueue(), which
\* awaits worker.close()
Signal(signal) ==
  /\ down.stage = "running"
  /\ down' = [down EXCEPT !.stage = "worker.close", !.busyAtSignal = Processing # {}]
  /\ QueuesIdle

\* await worker.close() resolves; webhookWorker.close() is called
WorkerClosed ==
  /\ down.stage = "worker.close"
  /\ closeResolves(Processing)
  /\ down' = [down EXCEPT !.stage = "webhookWorker.close",
                          !.closed = Append(@, "worker")]
  /\ QueuesIdle

\* await webhookWorker.close() resolves (a delivery is one step here, so
\* none is in progress); extractionQueue.close() is called
WebhookWorkerClosed ==
  /\ down.stage = "webhookWorker.close"
  /\ down' = [down EXCEPT !.stage = "extractionQueue.close",
                          !.closed = Append(@, "webhookWorker")]
  /\ QueuesIdle

ExtractionQueueClosed ==
  /\ down.stage = "extractionQueue.close"
  /\ down' = [down EXCEPT !.stage = "webhookQueue.close",
                          !.closed = Append(@, "extractionQueue")]
  /\ QueuesIdle

WebhookQueueClosed ==
  /\ down.stage = "webhookQueue.close"
  /\ down' = [down EXCEPT !.stage = "connection.quit",
                          !.closed = Append(@, "webhookQueue")]
  /\ QueuesIdle

\* await connection.quit() resolves; process.exit(0)
ConnectionQuit ==
  /\ down.stage = "connection.quit"
  /\ down' = [down EXCEPT !.stage = "exit 0", !.closed = Append(@, "connection")]
  /\ QueuesIdle

\* one of the awaited calls rejects: the catch of shutdown(), process.exit(1)
ShutdownThrows ==
  /\ down.stage \in {"worker.close", "webhookWorker.close", "extractionQueue.close",
                     "webhookQueue.close", "connection.quit"}
  /\ down' = [down EXCEPT !.stage = "exit 1"]
  /\ QueuesIdle

\* the process is gone: nothing of it runs on
Exited == down.stage \in {"exit 0", "exit 1"}

\* what the process does with the jobs it has while it lives
WorkerPromotes(j) == ~Exited /\ Promote(j)

WorkerAttemptFails(j, enqueued) == ~Exited /\ ProcessorLlmThrows(j, enqueued)

WorkerAttemptCompletes(j) == ~Exited /\ ProcessorCompletes(j)

ShutdownNext ==
  \/ \E data \in JobInputs : asyncExtract(data)
  \/ \E j \in JobIds : WorkerFetches(j)
  \/ \E j \in JobIds : WorkerPromotes(j)
  \/ \E j \in JobIds, enqueued \in BOOLEAN : WorkerAttemptFails(j, enqueued)
  \/ \E j \in JobIds : WorkerAttemptCompletes(j)
  \/ \E outcome \in {"delivered", "exhausted"} : WebhookWorkerDelivers(outcome)
  \/ \E signal \in {"SIGTERM", "SIGINT"} : Signal(signal)
  \/ WorkerClosed
  \/ WebhookWorkerClosed
  \/ ExtractionQueueClosed
  \/ WebhookQueueClosed
  \/ ConnectionQuit
  \/ ShutdownThrows

ShutdownSpec == Init /\ [][ShutdownNext]_vars

\* ---------------------------------------------------------------------
\* LLM client (anthropicService) behind POST /api/extract
\* ---------------------------------------------------------------------
MAX_RETRIES   == 3
SdkMaxRetries == 2    \* the client is built without maxRetries: the SDK's default

TimedOut == 0         \* no response: the error carries no status

\* tool inputs the model can emit
ToolInputs ==
  SingleExtractions \cup
  { [customerName |-> NoName, totalAmount |-> NULL,
     items |-> <<[name |-> "", quantity |-> 0, pricePerUnit |-> NULL,
                  totalPrice |-> NULL]>>] }

\* what one HTTP request can come back with
Responses ==
  { [status |-> 200, toolUse |-> TRUE, input |-> i] : i \in ToolInputs }
    \cup { [status |-> 200, toolUse |-> FALSE, input |-> NoInput] }
    \cup { [status |-> st, toolUse |-> FALSE, input |-> NoInput] :
             st \in {401, 409, 429, 500, TimedOut} }

\* parsed.items.map(...) of extractOrderFromMessage
RECURSIVE mapParsedItems(_)
mapParsedItems(items) ==
  IF items = <<>> THEN <<>>
  ELSE <<[name         |-> IF Head(items).name = "" THEN "Unknown" ELSE Head(items).name,
          quantity     |-> IF Head(items).quantity = 0 THEN 1 ELSE Head(items).quantity,
          pricePerUnit |-> Head(items).pricePerUnit,
          totalPrice   |-> Head(items).totalPrice]>>
       \o mapParsedItems(Tail(items))

\* the ExtractedOrder built from the tool input
extractOrderFromMessage(parsed) ==
  [customerName |-> parsed.customerName,
   totalAmount  |-> parsed.totalAmount,
   items        |-> mapParsedItems(parsed.items)]

\* the SDK repeats a request by itself on these
SdkShouldRetry(status) ==
  status \in {408, 409, 429} \/ status >= 500 \/ status = TimedOut

isClientError(status) == status >= 400 /\ status < 500 /\ status # 429

\* the find of a tool_use block that never finds one
noToolCall(response) == FALSE

\* response.content.find(block => block.type === "tool_use")
toolCall(response) == response.toolUse

\* the catch block of extractWithTool, for an error with this status
\* (TimedOut: an error without status, which includes the missing tool call)
catch(call, status) ==
  IF isClientError(status)
  THEN [call EXCEPT !.state = "thrown", !.error = status]
  ELSE IF call.attempt < MAX_RETRIES
       THEN [call EXCEPT !.state = "sleeping", !.delays = @ + 1]
       ELSE [call EXCEPT !.state = "thrown", !.error = TimedOut]

\* POST /api/extract: the handler calls extractOrderFromMessage
ExtractBegin(orgId) ==
  /\ llm.state = "idle"
  /\ calls < MaxCalls
  /\ llm' = [NoCall EXCEPT !.state = "requesting", !.orgId = orgId]
  /\ UNCHANGED <<orders, customers, orderItems, now, calls, ret>>
  /\ GenIdle /\ QueueIdle /\ HttpIdle

\* one HTTP request of anthropic.messages.create and what follows from its
\* response up to the next suspension
MessagesCreate(response) ==
  /\ llm.state = "requesting"
  /\ LET call == [llm EXCEPT !.requests = @ + 1,
                             !.onlyServerErrors =
                                @ /\ (response.status >= 500 \/ response.status = TimedOut),
                             !.noToolUse =
                                @ \/ (response.status = 200 /\ ~response.toolUse)]
     IN  llm' =
           IF response.status = 200
           THEN IF toolCall(response)
                THEN [call EXCEPT !.state = "returned", !.result = response.input,
                                  !.onlyServerErrors = llm.onlyServerErrors]
                ELSE catch(call, TimedOut)
           ELSE IF SdkShouldRetry(response.status) /\ llm.sdkRetries < SdkMaxRetries
                THEN [call EXCEPT !.sdkRetries = @ + 1]
                ELSE catch(call, response.status)
  /\ UNCHANGED <<orders, customers, orderItems, now, calls, ret>>
  /\ GenIdle /\ QueueIdle /\ HttpIdle

\* the backoff delay has passed: next iteration of the loop
Backoff ==
  /\ llm.state = "sleeping"
  /\ llm' = [llm EXCEPT !.state = "requesting", !.attempt = @ + 1, !.sdkRetries = 0]
  /\ UNCHANGED <<orders, customers, orderItems, now, calls, ret>>
  /\ GenIdle /\ QueueIdle /\ HttpIdle

\* the handler stores the extraction and answers 201
ExtractStore ==
  /\ llm.state = "returned"
  /\ AddOrder(llm.orgId, extractOrderFromMessage(llm.result))
  /\ llm' = [llm EXCEPT !.state = "idle"]
  /\ QueueIdle /\ HttpIdle

\* the error of the client reaches globalErrorHandler
ExtractFail ==
  /\ llm.state = "thrown"
  /\ Called
  /\ ret' = Result("extractOrder", llm.orgId, NULL, "error",
                   globalErrorHandler([kind |-> "Error", status |-> llm.error]).status)
  /\ llm' = [llm EXCEPT !.state = "idle"]
  /\ UNCHANGED <<orders, customers, orderItems, now>>
  /\ GenIdle /\ QueueIdle /\ HttpIdle

LlmNext ==
  \/ \E orgId \in Orgs : ExtractBegin(orgId)
  \/ \E response \in Responses : MessagesCreate(response)
  \/ Backoff
  \/ ExtractStore
  \/ ExtractFail

LlmSpec == Init /\ [][LlmNext]_vars

\* ---------------------------------------------------------------------
\* anthropicService: the pruning of the chat log and the confidence of a
\* single-message extraction
\* ---------------------------------------------------------------------
\* a text of n characters
Text(n) == [i \in 1..n |-> "x"]

\* the chat logs of the model: up to MaxMessages messages, oldest first
RECURSIVE ChatLogs(_)
ChatLogs(n) ==
  IF n = 0 THEN {<<>>}
  ELSE ChatLogs(n - 1)
         \cup {Append(m, [sender |-> "customer", text |-> Text(k)]) :
                 m \in {x \in ChatLogs(n - 1) : Len(x) = n - 1}, k \in 0..MaxTextLen}

\* a loop that skips a message that does not fit and goes on to older ones
RECURSIVE slideSkipping(_, _, _, _)
slideSkipping(messages, maxChars, i, currentCount) ==
  IF i = 0 THEN <<>>
  ELSE LET count == currentCount + Len(messages[i].text)
       IN  IF count > maxChars
           THEN slideSkipping(messages, maxChars, i - 1, currentCount)
           ELSE slideSkipping(messages, maxChars, i - 1, count) \o <<messages[i]>>

\* the loop of applySlidingWindow from index i down, currentCount so far:
\* what the iterations unshift into pruned
RECURSIVE slide(_, _, _, _)
slide(messages, maxChars, i, currentCount) ==
  IF i = 0 THEN <<>>
  ELSE LET count == currentCount + Len(messages[i].text)
       IN  IF count > maxChars THEN <<>>                          \* break
           ELSE slide(messages, maxChars, i - 1, count) \o <<messages[i]>>

applySlidingWindow(messages, maxChars) ==
  slide(messages, maxChars, Len(messages), 0)

\* extractOrderFromChat up to the request: the messages of conversationText
ExtractOrderFromChat(messages, maxChars) ==
  /\ ext.fn = "none"
  /\ ext' = [NoExt EXCEPT !.fn = "extractOrderFromChat", !.messages = messages,
                          !.maxChars = maxChars,
                          !.pruned = applySlidingWindow(messages, maxChars)]
  /\ UNCHANGED <<chatIds, down, edit, auth, pc, gen, issued, users, req, hits>>
  /\ StorageIdle /\ QueueIdle /\ LlmIdle

\* confidences in hundredths: 0.5 is 50, 1 is 100
Half == 50
One  == 100

\* parsed.confidence as the tool call can return it
ParsedConfidences == {0 - 20, 0, 1, 30, 50, 99, 100, 101, 250}

Min2(a, b) == IF a < b THEN a ELSE b
Max2(a, b) == IF a > b THEN a ELSE b

\* the clamp alone, without the fallback for a falsy number
clampOnly(parsed) == Min2(One, Max2(0, parsed))

\* Math.min(1, Math.max(0, Number(parsed.confidence) || 0.5))
confidenceOf(parsed) ==
  Min2(One, Max2(0, IF parsed = 0 THEN Half ELSE parsed))

\* extractOrderFromMessage after extractWithTool returned parsed
ExtractOrderFromMessage(parsed) ==
  /\ ext.fn = "none"
  /\ ext' = [NoExt EXCEPT !.fn = "extractOrderFromMessage", !.parsed = parsed,
                          !.confidence = confidenceOf(parsed)]
  /\ UNCHANGED <<chatIds, down, edit, auth, pc, gen, issued, users, req, hits>>
  /\ StorageIdle /\ QueueIdle /\ LlmIdle

\* the function returns its order
ExtractReturns ==
  /\ ext.fn # "none"
  /\ ext' = NoExt
  /\ UNCHANGED <<chatIds, down, edit, auth, pc, gen, issued, users, req, hits>>
  /\ StorageIdle /\ QueueIdle /\ LlmIdle

ExtractNext ==
  \/ \E messages \in ChatLogs(MaxMessages), maxChars \in 0..MaxChars :
        ExtractOrderFromChat(messages, maxChars)
  \/ \E parsed \in ParsedConfidences : ExtractOrderFromMessage(parsed)
  \/ ExtractReturns

ExtractSpec == Init /\ [][ExtractNext]_vars

\* ---------------------------------------------------------------------
\* The ids of chat orders: extractOrderFromChat takes the id from the clock
\* and addChatOrder inserts the order under it.  Extractions of the worker's
\* parallel jobs and of parallel requests finish in any order and at any
\* time of the clock.
\* ---------------------------------------------------------------------
\* a step of the chat ids alone
ChatIdsOnly ==
  /\ UNCHANGED <<orders, customers, orderItems, ret>>
  /\ UNCHANGED <<pc, gen, issued, edit, auth, ext, down, users, req, hits>>
  /\ QueueIdle /\ LlmIdle

\* a millisecond passes
ClockTick ==
  /\ now <= MaxCalls
  /\ now' = now + 1
  /\ UNCHANGED <<chatIds, calls>>
  /\ ChatIdsOnly

\* extractOrderFromChat builds the order: id: String(Date.now())
ChatExtracted(orgId) ==
  /\ Called
  /\ chatIds' = [chatIds EXCEPT !.pending = Append(@, [orgId |-> orgId, id |-> ToString(now)])]
  /\ now' = now
  /\ ChatIdsOnly

\* s without its i-th element
Without(s, i) == SubSeq(s, 1, i - 1) \o SubSeq(s, i + 1, Len(s))

\* addChatOrder: tx.insert(ordersTable).values({id: order.id, ...}); orders.id
\* is the primary key, across organizations
ChatInsert(i) ==
  /\ i \in DOMAIN chatIds.pending
  /\ chatIds' =
       IF chatIds.pending[i].id \in chatIds.inserted
       THEN [chatIds EXCEPT !.pending = Without(@, i), !.rejected = @ + 1]
       ELSE [chatIds EXCEPT !.pending = Without(@, i),
                            !.inserted = @ \cup {chatIds.pending[i].id}]
  /\ UNCHANGED <<now, calls>>
  /\ ChatIdsOnly

ChatInsertAny == \E i \in DOMAIN chatIds.pending : ChatInsert(i)

ChatIdNext ==
  \/ ClockTick
  \/ \E orgId \in Orgs : ChatExtracted(orgId)
  \/ ChatInsertAny

ChatIdSpec == Init /\ [][ChatIdNext]_vars

\* ---------------------------------------------------------------------
\* The router: authHandler, the limiters, requireOrg, redactPII, handlers
\* ---------------------------------------------------------------------
\* JSON values: strings are kept as token sequences
JNull     == [t |-> "null", v |-> <<>>]
JStr(s)   == [t |-> "str",  v |-> <<s>>]
JNum(n)   == [t |-> "num",  v |-> <<n>>]
JArr(seq) == [t |-> "arr",  v |-> seq]
JObj(seq) == [t |-> "obj",  v |-> seq]       \* a sequence of <<key, value>>

\* next(err): globalErrorHandler answers, the chain stops
Fail(r, err) ==
  [r EXCEPT !.stage = "sent", !.status = globalErrorHandler(err).status]

\* a request arrives at the router
Receive(route, apiKey, bearer) ==
  /\ req.stage \in {"idle", "sent"}
  /\ req.n < MaxRequests
  /\ req' = [NoRequest EXCEPT !.stage = "authHandler", !.n = req.n + 1,
                              !.route = route.name, !.limiter = route.limiter,
                              !.redactPII = route.redactPII,
                              !.apiKey = apiKey, !.bearer = bearer]
  /\ UNCHANGED <<users, hits>>
  /\ StorageIdle /\ GenIdle /\ QueueIdle /\ LlmIdle

\* the key lookup without the is_active condition
keyWhereAnyState(row, hash) == row.keyHash = hash

\* and(eq(apiKeysTable.keyHash, hash), eq(apiKeysTable.isActive, true))
keyWhere(row, hash) == row.keyHash = hash /\ row.isActive

\* authHandler; dbUp: the database answers its queries
authHandler(dbUp) ==
  /\ req.stage = "authHandler"
  /\ IF req.apiKey # NoHeader
     THEN LET result == {row \in ApiKeyRows : keyWhere(row, sha256(req.apiKey))}
          IN  /\ users' = users
              /\ IF ~dbUp
                 THEN req' = Fail(req, [kind |-> "Error"])
                 ELSE IF result = {}
                      THEN req' = Fail(req, AppError("Invalid API Key", 401))
                      ELSE \E row \in result :
                             req' = [req EXCEPT !.orgId = row.organizationId,
                                                !.stage = "limiter"]
     ELSE IF req.bearer # NoHeader
          THEN LET userId == jwtVerify(req.bearer)
               IN  IF userId = "" \/ ~dbUp
                   THEN /\ req' = Fail(req, AppError("Invalid or Expired Token", 401))
                        /\ users' = users
                   ELSE /\ users' = IF users[userId].exists THEN users
                                    ELSE [users EXCEPT ![userId] =
                                            [NoUser EXCEPT !.exists = TRUE]]
                        /\ req' = [req EXCEPT !.user = userId,
                                              !.orgId = users'[userId].organizationId,
                                              !.stage = "limiter"]
          ELSE /\ req' = Fail(req, AppError("Authentication required", 401))
               /\ users' = users
  /\ UNCHANGED hits
  /\ StorageIdle /\ GenIdle /\ QueueIdle /\ LlmIdle

\* ---------------------------------------------------------------------
\* authHandler's bearer path await by await, one request per task: requests
\* of several tasks run between each other's awaits.  The database answers
\* every query here; users.id is the table's primary key.
\* ---------------------------------------------------------------------
\* a step of the bearer path alone
AuthOnly ==
  /\ UNCHANGED <<pc, gen, issued, edit, ext, chatIds, down, req, hits>>
  /\ StorageIdle /\ QueueIdle /\ LlmIdle

\* await jwtVerify(token, JWKS); a throw is caught: 401
AuthVerify(p, token) ==
  /\ auth[p].stage = "idle"
  /\ \A q \in 1..(p-1) : auth[q].stage # "idle"
  /\ LET userId == jwtVerify(token)
     IN  auth' = [auth EXCEPT ![p] =
                    IF userId = ""
                    THEN [stage |-> "done", bearer |-> token, userId |-> "",
                          status |-> AppError("Invalid or Expired Token", 401).statusCode]
                    ELSE [stage |-> "verified", bearer |-> token, userId |-> userId,
                          status |-> 0]]
  /\ users' = users
  /\ AuthOnly

\* await db.select().from(usersTable).where(eq(usersTable.id, userId)).limit(1)
AuthSelect(p) ==
  /\ auth[p].stage = "verified"
  /\ auth' = [auth EXCEPT ![p].stage =
                IF users[auth[p].userId].exists THEN "done"      \* next()
                ELSE "inserting"]
  /\ users' = users
  /\ AuthOnly

\* await db.insert(usersTable).values({id: userId, ...}).returning(); a
\* second row with the same id violates the primary key, the insert rejects
\* and the catch answers 401
AuthInsert(p) ==
  /\ auth[p].stage = "inserting"
  /\ IF users[auth[p].userId].exists
     THEN /\ users' = users
          /\ auth' = [auth EXCEPT ![p].stage = "done",
                        ![p].status = AppError("Invalid or Expired Token", 401).statusCode]
     ELSE /\ users' = [users EXCEPT ![auth[p].userId] = [NoUser EXCEPT !.exists = TRUE]]
          /\ auth' = [auth EXCEPT ![p].stage = "done"]            \* next()
  /\ AuthOnly

\* the response is sent; the task takes the next request
AuthRespond(p) ==
  /\ auth[p].stage = "done"
  /\ auth' = [auth EXCEPT ![p] = NoAuth]
  /\ users' = users
  /\ AuthOnly

AuthNext ==
  \/ \E p \in Procs, token \in BearerHeaders \ {NoHeader} : AuthVerify(p, token)
  \/ \E p \in Procs : AuthSelect(p)
  \/ \E p \in Procs : AuthInsert(p)
  \/ \E p \in Procs : AuthRespond(p)

AuthSpec == Init /\ [][AuthNext]_vars

getOrgRateLimit(orgId, dbUp) ==
  IF orgId = NoOrg THEN TIER_LIMITS.free
  ELSE IF dbUp /\ OrgTier[orgId] \in DOMAIN TIER_LIMITS THEN TIER_LIMITS[OrgTier[orgId]]
  ELSE TIER_LIMITS.free

\* keyGenerator
keyGenerator(r) == IF r.orgId # NoOrg THEN r.orgId ELSE "ip"

\* extractLimiter / generalLimiter: the limiter built for the resolved max
\* counts the request under its key and lets it pass while the count is
\* within max
Limiter(dbUp) ==
  /\ req.stage = "limiter"
  /\ LET base      == getOrgRateLimit(req.orgId, dbUp)
         max       == IF req.limiter = "general" THEN base * ReadMultiplier ELSE base
         key       == <<max, keyGenerator(req)>>
         totalHits == hits[key] + 1
     IN  /\ hits' = [hits EXCEPT ![key] = totalHits]
         /\ req' = IF totalHits > max
                   THEN [req EXCEPT !.stage = "sent", !.status = 429]
                   ELSE [req EXCEPT !.stage = "requireOrg"]
  /\ UNCHANGED users
  /\ StorageIdle /\ GenIdle /\ QueueIdle /\ LlmIdle

\* a gate that is content with any authenticated identity
hasIdentity(r) == r.orgId # NoOrg \/ r.user # ""

\* !req.orgId, negated
hasOrg(r) == r.orgId # NoOrg

requireOrg ==
  /\ req.stage = "requireOrg"
  /\ req' = IF ~hasOrg(req)
            THEN Fail(req, AppError("User is not part of an Organization", 403))
            ELSE [req EXCEPT !.stage = "handler"]
  /\ UNCHANGED <<users, hits>>
  /\ StorageIdle /\ GenIdle /\ QueueIdle /\ LlmIdle

\* --- permissionService ------------------------------------------------
Permissions ==
  {"view_orders", "edit_orders", "delete_orders", "view_pii", "manage_users",
   "manage_billing", "manage_api_keys", "view_analytics"}

DEFAULT_ROLE_PERMISSIONS ==
  [owner   |-> Permissions,
   admin   |-> {"view_orders", "edit_orders", "delete_orders", "view_pii",
                "manage_users", "view_analytics"},
   manager |-> {"view_orders", "edit_orders", "view_pii", "view_analytics"},
   auditor |-> {"view_orders", "view_analytics"},
   member  |-> {"view_orders"}]

\* rolesTable: organization B has stored its member role
RoleRows ==
  { [organizationId |-> "B", name |-> "member",
     permissions |-> {"view_orders", "view_analytics"}] }

getUserPermissions(userId, orgId) ==
  IF ~users[userId].exists THEN {}
  ELSE LET roleName == users[userId].role
           dbRole   == {r \in RoleRows : r.name = roleName /\ r.organizationId = orgId}
       IN  IF dbRole # {} THEN (CHOOSE r \in dbRole : TRUE).permissions
           ELSE IF roleName \in DOMAIN DEFAULT_ROLE_PERMISSIONS
                THEN DEFAULT_ROLE_PERMISSIONS[roleName]
                ELSE {}

hasPermission(userId, orgId, permission) ==
  permission \in getUserPermissions(userId, orgId)

\* --- piiRedactor ------------------------------------------------------
SENSITIVE_KEYS ==
  {"customerName", "customer_name", "customerPhone", "customer_phone",
   "gst_number", "gstNumber", "phone", "phoneNumber", "phone_number", "mobile",
   "email", "address", "deliveryAddress", "delivery_address", "aadhaar", "pan",
   "ssn", "cardNumber", "card_number", "cvv", "password", "secret", "token"}

\* strings of the model that a pattern of PII_PATTERNS matches, with the
\* pattern's replacement
PII_PATTERNS ==
  [x \in {"rahul@example.com", "10.0.0.7"} |->
     IF x = "rahul@example.com" THEN "[EMAIL REDACTED]" ELSE "[IP REDACTED]"]

redactString(value) ==
  [i \in DOMAIN value |->
     IF value[i] \in DOMAIN PII_PATTERNS THEN PII_PATTERNS[value[i]] ELSE value[i]]

\* redaction that leaves the values under sensitive keys to the patterns
RECURSIVE redactPatternsOnly(_)
redactPatternsOnly(data) ==
  IF data.t = "str" THEN [data EXCEPT !.v = redactString(data.v)]
  ELSE IF data.t = "arr"
       THEN [data EXCEPT !.v = [i \in DOMAIN data.v |-> redactPatternsOnly(data.v[i])]]
  ELSE IF data.t = "obj"
       THEN [data EXCEPT !.v = [i \in DOMAIN data.v |->
                                  <<data.v[i][1], redactPatternsOnly(data.v[i][2])>>]]
  ELSE data

RECURSIVE redactSensitiveData(_)
redactSensitiveData(data) ==
  IF data.t = "str" THEN [data EXCEPT !.v = redactString(data.v)]
  ELSE IF data.t = "arr"
       THEN [data EXCEPT !.v = [i \in DOMAIN data.v |-> redactSensitiveData(data.v[i])]]
  ELSE IF data.t = "obj"
       THEN [data EXCEPT !.v =
              [i \in DOMAIN data.v |->
                 IF data.v[i][1] \in SENSITIVE_KEYS /\ data.v[i][2].t = "str"
                 THEN <<data.v[i][1], JStr("[REDACTED]")>>
                 ELSE <<data.v[i][1], redactSensitiveData(data.v[i][2])>>]]
  ELSE data

\* --- JSON.stringify of the handlers' bodies (undefined members are left out)
JsonItems(items) ==
  JArr([i \in DOMAIN items |->
          JObj(<< <<"product_name", JStr(items[i].product_name)>>,
                  <<"quantity", JNum(items[i].quantity)>>,
                  <<"price", JNum(items[i].price)>> >>)])

JsonInvoice(invoice) ==
  JObj(<< <<"invoice_number", JStr(ToString(invoice.invoice_number))>>,
          <<"customer_name", JStr(invoice.customer_name)>> >>)

JsonChatOrder(order) ==
  JObj(<< <<"id", JNum(order.id)>> >>
       \o (IF order.customer_name = NoName THEN <<>>
           ELSE << <<"customer_name", JStr(order.customer_name)>> >>)
       \o << <<"items", JsonItems(order.items)>> >>
       \o (IF order.delivery_address = "" THEN <<>>
           ELSE << <<"delivery_address", JStr(order.delivery_address)>> >>)
       \o (IF order.total = NULL THEN <<>> ELSE << <<"total", JNum(order.total)>> >>)
       \o << <<"status", JStr(order.status)>> >>
       \o (IF order.invoice = NoInvoice THEN <<>>
           ELSE << <<"invoice", JsonInvoice(order.invoice)>> >>))

JsonError(message) ==
  JObj(<< <<"status", JStr("error")>>, <<"message", JStr(message)>> >>)

\* --- handlers behind the middleware ------------------------------------
\* res.json(data) of a route behind redactPII: the replaced res.json holds
\* the body until the permission is resolved
Json(r, status, data) ==
  [r EXCEPT !.stage = "json", !.status = status, !.body = data]

\* GET /api/orders
RouteGetOrders ==
  /\ req.stage = "handler" /\ req.route = "GET /orders"
  /\ LET rows == getChatOrders(req.orgId, NumOrders, 0)
     IN  req' = Json(req, 200, JArr([i \in DOMAIN rows |-> JsonChatOrder(rows[i])]))
  /\ UNCHANGED <<users, hits>>
  /\ StorageIdle /\ GenIdle /\ QueueIdle /\ LlmIdle

\* GET /api/orders/:id
RouteGetOrderById(id) ==
  /\ req.stage = "handler" /\ req.route = "GET /orders/:id"
  /\ LET res == getOrderById(req.orgId, id)
     IN  req' = IF res.status = 200 THEN Json(req, 200, JsonChatOrder(res.body))
                ELSE Json(req, res.status, JsonError(res.message))
  /\ UNCHANGED <<users, hits>>
  /\ StorageIdle /\ GenIdle /\ QueueIdle /\ LlmIdle

\* POST /api/extract-order
RouteExtractChatOrder(order) ==
  /\ req.stage = "handler" /\ req.route = "POST /extract-order"
  /\ AddChatOrder(req.orgId, order)
  /\ req' = [req EXCEPT !.stage = "sent", !.status = 201]
  /\ UNCHANGED <<users, hits>>
  /\ QueueIdle /\ LlmIdle

\* POST /api/async/extract-order
RouteAsyncExtractChatOrder(webhookUrl) ==
  /\ req.stage = "handler" /\ req.route = "POST /async/extract-order"
  /\ addExtractionJob(req.orgId, "chat_log", webhookUrl, correlationId(NoHeader))
  /\ req' = [req EXCEPT !.stage = "sent", !.status = 202]
  /\ UNCHANGED <<users, hits>>

\* a catch block that sends the body as it is
sendAsIs(data) == data

\* the catch block of the replaced res.json
onFailure(data) == redactSensitiveData(data)

\* the res.json installed by redactPII; lookup: whether the queries of
\* getUserPermissions succeed
ResJson(lookup) ==
  /\ req.stage = "json"
  /\ LET resolves     == req.user # "" /\ req.orgId # NoOrg
         shouldRedact == IF resolves
                         THEN ~hasPermission(req.user, req.orgId, "view_pii")
                         ELSE TRUE
     IN  req' = [req EXCEPT !.stage = "sent",
                            !.sent = IF resolves /\ ~lookup THEN onFailure(req.body)
                                     ELSE IF shouldRedact
                                          THEN redactSensitiveData(req.body)
                                          ELSE req.body]
  /\ UNCHANGED <<users, hits>>
  /\ StorageIdle /\ GenIdle /\ QueueIdle /\ LlmIdle

\* what the HEAD request to the LLM endpoint can come to: a response other
\* than 401, a 401, or no response within 3 s
AnthropicProbes == {"reachable", "api_key_invalid", "unreachable"}

\* GET /api/health, in front of authHandler.  dbUp: SELECT 1 succeeds;
\* anthropic: the outcome of the HEAD request; queueUp: getQueueHealth()
\* succeeds.  statusCode is computed before the queue is looked at
health(dbUp, anthropic, queueUp) ==
  /\ req.stage \in {"idle", "sent"}
  /\ req.n < MaxRequests
  /\ LET status     == IF dbUp THEN "ok" ELSE "error"
         statusCode == IF status = "ok" THEN 200 ELSE 503
         services   == JObj(<< <<"database", JStr(IF dbUp THEN "connected"
                                                  ELSE "disconnected")>>,
                               <<"anthropic", JStr(anthropic)>>,
                               <<"queue", JStr(IF queueUp THEN "connected"
                                               ELSE "disconnected")>> >>)
         healthStatus == JObj(<< <<"status", JStr(status)>>,
                                 <<"services", services>> >>)
     IN  req' = [NoRequest EXCEPT !.stage = "sent", !.n = req.n + 1,
                                  !.route = "GET /health", !.status = statusCode,
                                  !.body = healthStatus, !.sent = healthStatus]
  /\ UNCHANGED <<users, hits>>
  /\ StorageIdle /\ GenIdle /\ QueueIdle /\ LlmIdle

\* an order got its invoice before the requests of the run
InvoiceAttached(orgId, id) ==
  /\ req.stage = "idle"
  /\ Visible(orgId, id) /\ orders[id].invoice = NoInvoice
  /\ AttachInvoice(orgId, id, ForeignInvoice)

ApiNext ==
  \/ \E route \in Routes, headers \in Credentials :
        Receive(route, headers.apiKey, headers.bearer)
  \/ \E dbUp \in BOOLEAN : authHandler(dbUp)
  \/ \E dbUp \in BOOLEAN : Limiter(dbUp)
  \/ requireOrg
  \/ RouteGetOrders
  \/ \E id \in OrderIds : RouteGetOrderById(id)
  \/ \E order \in Extractions : RouteExtractChatOrder(order)
  \/ \E webhookUrl \in BOOLEAN : RouteAsyncExtractChatOrder(webhookUrl)
  \/ \E lookup \in BOOLEAN : ResJson(lookup)
  \/ \E id \in OrderIds : InvoiceAttached("A", id)
  \/ \E dbUp \in BOOLEAN, anthropic \in AnthropicProbes, queueUp \in BOOLEAN :
        health(dbUp, anthropic, queueUp)

ApiSpec == Init /\ [][ApiNext]_vars

TypeOK ==
  /\ \A o \in OrderIds : orders[o].invoiceSequence \in 0..MaxCalls
  /\ now \in 1..(MaxCalls + 1)
  /\ calls \in 0..MaxCalls

\* ---------------------------------------------------------------------
\* Auxiliary definitions of the properties
\* ---------------------------------------------------------------------
OrdersOf(orgId) == {o \in OrderIds : orders[o].exists /\ orders[o].organizationId = orgId}

Sequenced(orgId) == {o \in OrdersOf(orgId) : orders[o].invoiceSequence # NULL}

SeqValues(orgId) == {orders[o].invoiceSequence : o \in Sequenced(orgId)}

InFlight(orgId) == {p \in Procs : pc[p] # "idle" /\ gen[p].orgId = orgId}

Range(s) == {s[i] : i \in 1..Len(s)}

AbsentId == NumOrders + 1       \* an id no order ever has

RECURSIVE SumOf(_)
SumOf(S) == IF S = {} THEN 0
            ELSE LET o == CHOOSE x \in S : TRUE
                 IN  orders[o].totalAmount + SumOf(S \ {o})

\* ---------------------------------------------------------------------
\* C1: N concurrent generateAndAttachInvoice calls on N distinct, non-deleted,
\* not-yet-invoiced orders of one organization that had no sequences: once
\* all of them have committed, the N sequences are pairwise distinct and are
\* exactly 1..N.
\* ---------------------------------------------------------------------
C1_ConcurrentCallsGetOneToN ==
  \A g \in Orgs :
    ( /\ InFlight(g) = {}
      /\ \A o \in OrdersOf(g) : orders[o].deletedAt = NULL
      /\ Cardinality(Sequenced(g)) = issued[g] )     \* every call took another order
    => SeqValues(g) = 1..issued[g]

\* ---------------------------------------------------------------------
\* C2: after N successful generateAndAttachInvoice calls in an organization,
\* interleaved with any other storage operation, the non-null invoiceSequence
\* values of its orders are exactly 1..N.
\* ---------------------------------------------------------------------
C2_DenseFromOne ==
  \A g \in Orgs : InFlight(g) = {} => SeqValues(g) = 1..issued[g]

\* ---------------------------------------------------------------------
\* C3: invoiceSequence is written exactly once: once non-null, no later
\* operation changes it.
\* ---------------------------------------------------------------------
C3_SequenceWrittenOnce ==
  [][\A o \in OrderIds :
        orders[o].invoiceSequence # NULL
          => orders'[o].invoiceSequence = orders[o].invoiceSequence]_vars

\* ---------------------------------------------------------------------
\* C4: the sequences of two organizations are independent and each starts
\* at 1: what is allocated in one organization is computed from that
\* organization's orders alone and never exceeds the number of allocations
\* made in that organization, whatever happens in the other one.
\* ---------------------------------------------------------------------
C4_OwnCount ==
  /\ \A o \in OrderIds :
       orders[o].exists => orders[o].invoiceSequence <= issued[orders[o].organizationId]
  /\ \A p \in Procs :
       pc[p] = "maxRead" => gen[p].nextSequenceNumber \in 1..(issued[gen[p].orgId] + 1)

C4_OwnRowsOnly ==
  \A p \in Procs :
    (pc[p] = "selected" /\ pc'[p] = "maxRead")
      => gen'[p].nextSequenceNumber =
           1 + Max({orders[o].invoiceSequence : o \in OrdersOf(gen[p].orgId)})

C4_IndependentSequences == []C4_OwnCount /\ [][C4_OwnRowsOnly]_vars

C4_Witness ==
  /\ \E o \in OrdersOf("A") : orders[o].invoiceSequence = 1
  /\ \E o \in OrdersOf("B") : orders[o].invoiceSequence = 1
  /\ issued["A"] = 1 /\ issued["B"] = 1

\* ---------------------------------------------------------------------
\* C5: for organizations A # B, every read path answers a caller of A with
\* rows of A only, and an order id of B gets the same 404 "Order not found"
\* as an id that does not exist.
\* ---------------------------------------------------------------------
C5_TenantIsolatedReads ==
  \A a \in Orgs :
    /\ \A r \in Range(getChatOrders(a, NumOrders, 0)) : r.id \in OrdersOf(a)
    /\ \A r \in Range(getOrders(a)) : r.id \in OrdersOf(a)
    /\ getChatOrdersCount(a, "") <= Cardinality(OrdersOf(a))
    /\ getStats(a).pending_orders + getStats(a).confirmed_orders
         <= Cardinality(OrdersOf(a))
    /\ getTotalRevenue(a) <= SumOf(OrdersOf(a))
    /\ \A id \in OrderIds :
         orders[id].exists /\ orders[id].organizationId # a
           => /\ getChatOrder(a, id) = Undefined
              /\ getOrder(a, id) = Undefined
              /\ getOrderById(a, id) = ErrorBody(404, "Order not found")
              /\ getOrderById(a, id) = getOrderById(a, AbsentId)
              /\ downloadInvoice(a, id) = ErrorBody(404, "Order not found")
              /\ downloadInvoice(a, id) = downloadInvoice(a, AbsentId)

C5_Witness ==
  \E id \in OrdersOf("B") :
    /\ orders[id].extractionType = "chat_log"
    /\ orders[id].invoice # NoInvoice
    /\ getOrderById("B", id).status = 200
    /\ downloadInvoice("B", id).status = 302
    /\ getOrderById("A", id).status = 404
    /\ Len(getChatOrders("A", NumOrders, 0)) > 0

\* ---------------------------------------------------------------------
\* C6: a storage mutation invoked with organization A and any id, forged
\* or not, changes no order, order-item or customer row of another
\* organization: whenever rows of an organization change, the call that
\* changed them was made with that organization.
\* ---------------------------------------------------------------------
RowsChanged(b) ==
  \/ \E o \in OrdersOf(b) : orders'[o] # orders[o] \/ orderItems'[o] # orderItems[o]
  \/ \E c \in CustIds : /\ customers[c].exists
                        /\ customers[c].organizationId = b
                        /\ customers'[c] # customers[c]

C6_NoCrossTenantWrite ==
  [][\A b \in Orgs : RowsChanged(b) => ret'.orgId = b]_vars

C6_Witness ==
  /\ ret.op \in {"updateOrderStatus", "updateChatOrderDetails", "deleteOrder",
                 "attachInvoice", "generateInvoice"}
  /\ ret.orgId = "A"
  /\ ret.id \in OrdersOf("B")
  /\ orders[ret.id].deletedAt = NULL
  /\ ret.result \in {"undefined", "false", "rollback"}

\* ---------------------------------------------------------------------
\* C7: once deleteOrder has succeeded on an order, every read path treats
\* the order as absent, and no later operation makes it visible again.
\* ---------------------------------------------------------------------
Live(orgId) == {o \in OrdersOf(orgId) : orders[o].deletedAt = NULL}

C7_DeletedIsAbsent ==
  \A o \in OrderIds :
    (orders[o].exists /\ orders[o].deletedAt # NULL)
      => \A a \in Orgs :
           /\ getChatOrder(a, o) = Undefined
           /\ getOrder(a, o) = Undefined
           /\ getOrderById(a, o) = ErrorBody(404, "Order not found")
           /\ downloadInvoice(a, o) = ErrorBody(404, "Order not found")
           /\ \A r \in Range(getChatOrders(a, NumOrders, 0)) : r.id # o
           /\ \A r \in Range(getOrders(a)) : r.id # o
           /\ getChatOrdersCount(a, "") <= Cardinality(Live(a))
           /\ getTotalRevenue(a) <= SumOf(Live(a))

C7_StaysDeleted ==
  \A o \in OrderIds :
    (orders[o].exists /\ orders[o].deletedAt # NULL)
      => (orders'[o].exists /\ orders'[o].deletedAt # NULL)

C7_SoftDeleteOpacity == []C7_DeletedIsAbsent /\ [][C7_StaysDeleted]_vars

C7_Witness ==
  /\ ret.op = "deleteOrder" /\ ret.result = "true"
  /\ orders[ret.id].deletedAt # NULL
  /\ orders[ret.id].extractionType = "chat_log"
  /\ orders[ret.id].invoice # NoInvoice
  /\ Live(ret.orgId) # {}

\* ---------------------------------------------------------------------
\* C8: a row whose deletedAt is set is never modified: deleteOrder on an
\* already soft-deleted order matches no row (returns false, deletedAt
\* unchanged) and a generateAndAttachInvoice racing with the delete writes
\* nothing onto the row after it was soft-deleted.
\* ---------------------------------------------------------------------
C8_DeletedRowUntouched ==
  [][/\ \A o \in OrderIds :
          (orders[o].exists /\ orders[o].deletedAt # NULL) => orders'[o] = orders[o]
     /\ ( /\ calls' = calls + 1
          /\ ret'.op = "deleteOrder"
          /\ orders[ret'.id].exists
          /\ orders[ret'.id].deletedAt # NULL )
        => ret'.result = "false"]_vars

\* ---------------------------------------------------------------------
\* C9: a soft-deleted order that holds sequence s keeps s, and no later
\* generateAndAttachInvoice of the same organization allocates s again.
\* ---------------------------------------------------------------------
C9_SequenceNotReclaimed ==
  [][\A o \in OrderIds :
        (orders[o].exists /\ orders[o].deletedAt # NULL /\ orders[o].invoiceSequence # NULL)
          => /\ orders'[o].invoiceSequence = orders[o].invoiceSequence
             /\ \A x \in OrdersOf(orders[o].organizationId) \ {o} :
                  orders'[x].invoiceSequence # orders[x].invoiceSequence
                    => orders'[x].invoiceSequence # orders[o].invoiceSequence]_vars

\* ---------------------------------------------------------------------
\* C10: generateAndAttachInvoice for an order id that is absent, soft-deleted
\* or owned by another organization rolls back and answers NotFound (404 at
\* POST /api/generate-invoice); it allocates no sequence and changes no row.
\* ---------------------------------------------------------------------
C10_GenerateNotFound ==
  [][\A p \in Procs, orgId \in Orgs, id \in OrderIds :
        (GenerateSelect(p, orgId, id) /\ ~Visible(orgId, id))
          => /\ ret'.result = "rollback"
             /\ ret'.status = 404
             /\ UNCHANGED <<orders, customers, orderItems, issued, pc>>]_vars

\* ---------------------------------------------------------------------
\* C11: PATCH /api/orders/:id with a status that is not one of pending,
\* confirmed, fulfilled, cancelled answers 400 and leaves the stored status
\* unchanged; only those four values are ever stored.
\* ---------------------------------------------------------------------
C11_StatusValidated ==
  /\ [](\A o \in OrderIds : orders[o].exists => orders[o].status \in OrderStatuses)
  /\ [][\A orgId \in Orgs, id \in OrderIds, status \in StatusBodies \ OrderStatuses :
          updateOrderStatusHandler(orgId, id, status)
            => /\ ret'.status = 400
               /\ orders' = orders]_vars

FailureHooks(j, bag) ==
  CopiesIn(DeliverData(cid(j), FailedPayload(j, LlmFailure)), bag)
    + CopiesIn(DeliverData(cid(j), FailedPayload(j, EnqueueFailure)), bag)

C13_FailureWebhookOnlyWhenExhausted ==
  [][\A j \in JobIds :
        FailureHooks(j, webhooks') > FailureHooks(j, webhooks)
          => /\ FailureHooks(j, webhooks') = FailureHooks(j, webhooks) + 1
             /\ jobs[j].state = "active"
             /\ jobs'[j].state = "failed"]_vars

\* ---------------------------------------------------------------------
\* C14: each scheduling of a job (enqueue or DLQ retry) runs the processor
\* at most 3 times; the job enters the failed set only when an attempt fails
\* with no attempt left, and it leaves the failed set only by a DLQ retry.
\* ---------------------------------------------------------------------
C14_RunsBounded == \A j \in JobIds : runs[j] <= Attempts

C14_FailedOnlyWhenExhausted ==
  \A j \in JobIds :
    (jobs[j].state # "failed" /\ jobs'[j].state = "failed")
      => /\ jobs[j].state = "active"
         /\ jobs'[j].attemptsMade >= Attempts

C14_FailedIsKept ==
  \A j \in JobIds :
    (jobs[j].state = "failed" /\ jobs'[j] # jobs[j])
      => /\ jobs'[j].state = "waiting"
         /\ \/ retryReq = j /\ retryReq' = NULL
            \/ calls' = calls + 1 /\ ret'.op = "retryAllFailedJobs"

C14_AttemptsAndDlq ==
  /\ []C14_RunsBounded
  /\ [][C14_FailedOnlyWhenExhausted /\ C14_FailedIsKept]_vars

C14_Witness ==
  \E j \in JobIds :
    /\ jobs[j].state = "failed"
    /\ runs[j] = Attempts
    /\ jobs[j].attemptsMade = Attempts

\* ---------------------------------------------------------------------
\* C15: retryFailedJob on a job of the failed set re-schedules that job
\* under its id with its payload and creates no job; for an unknown id or a
\* job that is not failed it returns false and changes nothing.
\* ---------------------------------------------------------------------
JobData(j) == <<jobs[j].orgId, jobs[j].type, jobs[j].webhookUrl>>

C15_Rescheduled ==
  (ret' # ret /\ ret'.op = "retryFailedJob" /\ ret'.result = "true")
    => /\ jobs[ret'.id].state = "failed"
       /\ jobs'[ret'.id].state = "waiting"
       /\ <<jobs'[ret'.id].orgId, jobs'[ret'.id].type, jobs'[ret'.id].webhookUrl>>
            = JobData(ret'.id)
       /\ \A j \in JobIds \ {ret'.id} : jobs'[j] = jobs[j]
       /\ webhooks' = webhooks

C15_Refused ==
  \A orgId \in Orgs, jobId \in JobIds \cup {AbsentJob} :
    ( /\ RetryLookup(orgId, jobId)
      /\ \/ jobId \notin JobIds
         \/ jobs[jobId].state # "failed" )
      => /\ ret'.op = "retryFailedJob" /\ ret'.id = jobId
         /\ ret'.result = "false" /\ ret'.status = 404
         /\ UNCHANGED <<jobs, runs, webhooks, retryReq>>

C16_AtMostFourRequests == llm.requests <= MAX_RETRIES + 1

\* C17: a request answered with a 4xx status other than 429 ends the call at
\* once: the call is thrown, no further request follows and no backoff delay
\* is waited.
C17_ClientErrorFailsFast ==
  [][\A response \in Responses :
       (isClientError(response.status) /\ MessagesCreate(response))
         => /\ llm'.state = "thrown"
            /\ llm'.delays = llm.delays]_vars

\* C18: when every request so far failed with a 5xx status or a timeout, at
\* most three of them, and the next one succeeds, the call returns exactly
\* the tool input of that response, and a returned call issues no further
\* request.
C18_ReturnsFirstSuccess ==
  /\ [][\A response \in Responses :
          (/\ llm.onlyServerErrors
           /\ llm.requests <= MAX_RETRIES
           /\ response.status = 200 /\ response.toolUse
           /\ MessagesCreate(response))
            => /\ llm'.state = "returned"
               /\ llm'.result = response.input
               /\ llm'.requests = llm.requests + 1]_vars
  /\ [][llm.state = "returned"
          => /\ llm'.state \in {"returned", "idle"}
             /\ llm'.requests = llm.requests
             /\ llm'.result = llm.result]_vars

\* the call answered [500, 500, 200] has returned after three requests
C18_Witness ==
  /\ llm.state = "returned"
  /\ llm.onlyServerErrors
  /\ llm.requests = 3
  /\ llm.delays = 0
  /\ llm.result \in ToolInputs

\* C19: a response without a tool-use block fails the call, and no payload is
\* returned from a call that received such a response.
C19_MalformedFailsCall ==
  /\ [][\A response \in Responses :
          (response.status = 200 /\ ~response.toolUse /\ MessagesCreate(response))
            => llm'.state = "thrown"]_vars
  /\ [](llm.noToolUse => llm.state # "returned")

\* C20: a synchronous extraction whose LLM call failed on a non-retriable 4xx
\* is answered with status 502.
C20_UpstreamBadRequest ==
  [][(isClientError(llm.error) /\ ExtractFail) => ret'.status = 502]_vars


\* C21: for a request that carries an API key, authHandler decides on the key
\* alone: when the database answers and no active row has the key's SHA-256
\* hash the request is answered 401, whatever the bearer token; when an
\* active row matches, req.orgId is that row's organization; in both cases
\* the bearer path does not run (no user is attached, no user row is made).
C21_ApiKeyPathDecides ==
  [][\A dbUp \in BOOLEAN :
       (req.apiKey # NoHeader /\ authHandler(dbUp))
         => /\ req'.user = "" /\ users' = users
            /\ dbUp =>
                 LET active == {row \in ApiKeyRows :
                                  row.isActive /\ row.keyHash = sha256(req.apiKey)}
                 IN  IF active = {}
                     THEN req'.stage = "sent" /\ req'.status = 401
                     ELSE /\ req'.stage = "limiter"
                          /\ req'.orgId \in {row.organizationId : row \in active}]_vars

\* a revoked key together with the valid token of a user has been answered 401
C21_Witness ==
  /\ req.stage = "sent" /\ req.status = 401
  /\ req.apiKey = "key-B-old" /\ req.bearer = "jwt-u2"
  /\ req.orgId = NoOrg


RECURSIVE Leaks(_)
Leaks(data) ==
  IF data.t = "arr" THEN \E i \in DOMAIN data.v : Leaks(data.v[i])
  ELSE IF data.t = "obj"
       THEN \E i \in DOMAIN data.v :
              \/ /\ data.v[i][1] \in SENSITIVE_KEYS
                 /\ data.v[i][2].t = "str"
                 /\ data.v[i][2].v # <<"[REDACTED]">>
              \/ Leaks(data.v[i][2])
  ELSE FALSE

\* the caller of the request holds view_pii
CoveredByViewPii(r) ==
  r.user # "" /\ r.orgId # NoOrg /\ hasPermission(r.user, r.orgId, "view_pii")

\* C23: in a body sent through the PII redactor to a caller who does not hold
\* view_pii (API-key callers included), every string under a sensitive key,
\* at any depth and inside arrays, is "[REDACTED]".
C23_SensitiveKeysRedacted ==
  (req.stage = "sent" /\ ~CoveredByViewPii(req)) => ~Leaks(req.sent)

\* an API-key caller got the order list; an order in it carries an invoice,
\* whose customer_name sits one object deeper than the order's own
C23_Witness ==
  /\ req.stage = "sent" /\ req.apiKey = "key-A" /\ req.route = "GET /orders"
  /\ req.status = 200
  /\ Leaks(req.body) /\ req.sent # req.body
  /\ \E i \in DOMAIN req.body.v :
       \E k \in DOMAIN req.body.v[i].v :
         /\ req.body.v[i].v[k][1] = "invoice"
         /\ Leaks(req.body.v[i].v[k][2])

\* C24: when the permission lookup fails, the body that is sent is the
\* redacted one, also for a user who holds view_pii.
C24_FailClosed ==
  [][(req.stage = "json" /\ req.user # "" /\ req.orgId # NoOrg /\ ResJson(FALSE))
       => /\ ~Leaks(req'.sent)
          /\ req'.sent = redactSensitiveData(req.body)]_vars

\* the owner of A, who holds view_pii, got a redacted order after a failed lookup
C24_Witness ==
  /\ req.stage = "sent" /\ req.user = "u1" /\ req.orgId = "A"
  /\ CoveredByViewPii(req)
  /\ Leaks(req.body) /\ ~Leaks(req.sent)

\* requests of key that the limiters let pass so far in the window: the
\* limiter built for max lets the first max requests of a key pass
Admitted(multiplier, key) ==
  LET passed(t) == LET max == multiplier * TIER_LIMITS[t]
                   IN  IF hits[<<max, key>>] < max THEN hits[<<max, key>>] ELSE max
  IN  passed("free") + passed("pro") + passed("enterprise")

\* C25: within one window the write limiter lets at most the tier's base
\* maximum of requests of an organization pass and the read limiter at most 5
\* times that base; a request that falls back to the free tier is held to
\* the free-tier maximum; every request beyond the bound is answered 429.
C25_AdmittedWithinTier ==
  /\ [](\A org \in Orgs :
          /\ Admitted(1, org) <= TIER_LIMITS[OrgTier[org]]
          /\ Admitted(ReadMultiplier, org) <= ReadMultiplier * TIER_LIMITS[OrgTier[org]])
  /\ [](Admitted(1, "ip") <= TIER_LIMITS.free
          /\ Admitted(ReadMultiplier, "ip") <= ReadMultiplier * TIER_LIMITS.free)
  /\ [][(req.stage = "limiter" /\ req'.stage = "sent") => req'.status = 429]_vars

\* C26: the job of an async extraction request carries the request's
\* correlation ID (the x-correlation-id header, or the id the middleware
\* assigned) for as long as it exists, and the POST the webhook worker sends
\* for any delivery queued for the job, success or failure, on any attempt,
\* has that ID as X-Correlation-Id.
C26_WebhookCarriesCorrelationId ==
  /\ [][\A data \in JobInputs :
          asyncExtract(data)
            => /\ jobs'[FreshJob].correlationId = correlationId(data.xCorrelationId)
               /\ data.xCorrelationId # NoHeader
                    => jobs'[FreshJob].correlationId = data.xCorrelationId]_vars
  /\ [][\A j \in JobIds :
          jobs[j].state # "none" => jobs'[j].correlationId = jobs[j].correlationId]_vars
  /\ [](\A data \in BagToSet(webhooks) :
          fetch(data).XCorrelationId = jobs[fetch(data).body.jobId].correlationId)

\* the failure payload of a job that went through its attempts waits for
\* delivery under the x-correlation-id of the request that enqueued the job
C26_Witness ==
  \E data \in BagToSet(webhooks) :
    /\ fetch(data).body.status = "failed"
    /\ jobs[fetch(data).body.jobId].state = "failed"
    /\ jobs[fetch(data).body.jobId].correlationId = "cid-1"
    /\ fetch(data).XCorrelationId = "cid-1"


\* C27: while the worker processes a job, the worker's ambient store holds
\* the job's correlation ID, so every line written meanwhile (by the
\* processor, by the LLM client it calls, by the worker's listeners)
\* carries the correlation ID of the request that enqueued the job.
C27_WorkerLogsCarryCorrelationId ==
  \A j \in JobIds :
    jobs[j].state = "active"
      => /\ getCorrelationId(WorkerStore) = jobs[j].correlationId
         /\ \A line \in ProcessorLines(j) \cup ClientLines(TRUE) \cup CompletedLines(j)
                          \cup FailedLines(j, TRUE) \cup FailedLines(j, FALSE) :
              line.correlationId = jobs[j].correlationId

\* C28: GetChatOrder right after AddChatOrder(A, o) returns o's line items,
\* customer name, total and status, and one order-item row is persisted per
\* item of o.
C28_ChatOrderRoundTrip ==
  [][\A orgId \in Orgs, o \in Extractions :
       extractChatOrder(orgId, o)
         => \A id \in {FreshOrder} :
            LET got == getChatOrder(orgId, id)'
            IN  /\ got # Undefined
                /\ got.items = o.items
                /\ o.customer_name # NoName => got.customer_name = o.customer_name
                /\ got.total = o.total
                /\ got.status = "pending"
                /\ Len(orderItems'[id]) = Len(o.items)
                /\ \A i \in DOMAIN o.items :
                     /\ orderItems'[id][i].productName  = o.items[i].product_name
                     /\ orderItems'[id][i].quantity     = o.items[i].quantity
                     /\ orderItems'[id][i].pricePerUnit = o.items[i].price]_vars

\* C29: GET /api/health answers 200 exactly when the database, the LLM
\* endpoint and the queue are all up, and 503 when any of them is down.
C29_HealthReflectsAllServices ==
  [][\A dbUp \in BOOLEAN, anthropic \in AnthropicProbes, queueUp \in BOOLEAN :
       health(dbUp, anthropic, queueUp)
         => LET allUp == dbUp /\ anthropic # "unreachable" /\ queueUp
            IN  req'.status = IF allUp THEN 200 ELSE 503]_vars

C31_DlqTenantScoped ==
  /\ [](\A orgId \in Orgs : \A entry \in dlqList(orgId) : entry.orgId = orgId)
  /\ [][\A orgId \in Orgs, jobId \in JobIds :
          (RetryLookup(orgId, jobId) /\ retryReq' = jobId)
            => jobs[jobId].orgId = orgId]_vars
  /\ [][\A orgId \in Orgs, resetAttemptsMade \in BOOLEAN :
          retryAllFailedJobs(orgId, resetAttemptsMade)
            => \A j \in JobIds : jobs'[j] # jobs[j] => jobs[j].orgId = orgId]_vars

\* the item rows an edit can leave on order o: those of the seeding and
\* those of any one supplied list
EditOutcomes(o) ==
  {seedItems(orders[o].organizationId, 0)}
    \cup {chatItemRows(orders[o].organizationId, u.items) : u \in EditPatches}

\* C32: whatever the interleaving of UpdateChatOrderDetails calls that supply
\* items on one order, the order's item rows are exactly the list of one call
\* (no mixture, no duplicates); the committing call leaves its own list and a
\* failing call leaves the rows as they were.
C32_ItemRowsOfOneCall ==
  /\ [](\A o \in OrderIds : orders[o].exists => orderItems[o] \in EditOutcomes(o))
  /\ [][\A p \in Procs :
          (EditCommit(p) /\ "items" \in edit[p].updates.set)
            => orderItems'[edit[p].id]
                 = chatItemRows(edit[p].orgId, edit[p].updates.items)]_vars
  /\ [][\A p \in Procs : EditFails(p) => orderItems' = orderItems]_vars

\* two edits of one order at once: one has replaced the rows and not yet
\* committed, the other waits for the row, after an earlier edit of that order
C32_Witness ==
  \E p, q \in Procs :
    /\ p # q
    /\ edit[p].id = edit[q].id
    /\ edit[p].stage = "inserted"
    /\ edit[q].stage = "waiting"
    /\ edit[p].updates.items # edit[q].updates.items
    /\ orderItems[edit[p].id] # seedItems(edit[p].orgId, 0)

\* C33: when POST /api/generate-invoice answers with an error (the order is
\* not found, or rendering or uploading the PDF fails), no invoice sequence
\* has been consumed and the order's invoice, invoiceSequence and status are
\* as before the request.
C33_ErrorLeavesOrderUntouched ==
  [][\A p \in Procs :
       (/\ \/ \E orgId \in Orgs, id \in OrderIds : GenerateSelect(p, orgId, id)
           \/ \E pdfOk \in BOOLEAN : GenerateUpdate(p, pdfOk)
        /\ ret'.op = "generateInvoice"
        /\ ret'.status >= 400)
         => /\ issued' = issued
            /\ \A o \in OrderIds :
                 /\ orders'[o].invoice = orders[o].invoice
                 /\ orders'[o].invoiceSequence = orders[o].invoiceSequence
                 /\ orders'[o].status = orders[o].status]_vars

\* C34: requests bearing the same valid bearer token of a user who has no
\* row yet, processed concurrently, are all authenticated and leave the
\* user's row behind; none is answered 401 because of another's insert.
C34_ConcurrentFirstLogin ==
  \A p \in Procs :
    (auth[p].stage = "done" /\ jwtVerify(auth[p].bearer) # "")
      => /\ auth[p].status = 0
         /\ users[auth[p].userId].exists

\* total text length of a list of messages
RECURSIVE TotalChars(_)
TotalChars(m) == IF m = <<>> THEN 0 ELSE Len(Head(m).text) + TotalChars(Tail(m))

\* the suffix of k messages
Suffix(m, k) == SubSeq(m, Len(m) - k + 1, Len(m))

\* C35: for every message list and cap, the pruned list is the longest
\* suffix of the input, in original order, whose total text length does not
\* exceed the cap.
C35_LongestFittingSuffix ==
  ext.fn = "extractOrderFromChat"
    => \E k \in 0..Len(ext.messages) :
         /\ ext.pruned = Suffix(ext.messages, k)
         /\ TotalChars(ext.pruned) <= ext.maxChars
         /\ \A n \in 0..Len(ext.messages) :
              TotalChars(Suffix(ext.messages, n)) <= ext.maxChars => n <= k

\* a log whose newest messages fit and whose older ones are cut, with a
\* short old message left out behind a long one
C35_Witness ==
  /\ ext.fn = "extractOrderFromChat"
  /\ Len(ext.messages) = 3
  /\ Len(ext.pruned) = 1
  /\ Len(ext.messages[1].text) + Len(ext.pruned[1].text) <= ext.maxChars
  /\ Len(ext.messages[1].text) > 0

\* C36: for every non-empty chat log the pruned list holds at least the
\* newest message, also when that message alone is longer than the cap: the
\* model is never called with an empty conversation.
C36_NewestMessageKept ==
  (ext.fn = "extractOrderFromChat" /\ ext.messages # <<>>)
    => /\ ext.pruned # <<>>
       /\ ext.pruned[Len(ext.pruned)] = ext.messages[Len(ext.messages)]

\* C39: for every numeric confidence c the model returns for a single
\* message, the order's confidence is c clamped to [0, 1]: min(1, max(0, c)).
C39_ConfidenceClamped ==
  ext.fn = "extractOrderFromMessage"
    => ext.confidence = Min2(One, Max2(0, ext.parsed))

C38_ChatOrderIdsDistinct ==
  /\ chatIds.rejected = 0
  /\ \A i \in DOMAIN chatIds.pending :
       /\ chatIds.pending[i].id \notin chatIds.inserted
       /\ \A j \in DOMAIN chatIds.pending :
            i # j => chatIds.pending[i].id # chatIds.pending[j].id

\* the order in which shutdownQueue closes its handles
ShutdownOrder ==
  <<"worker", "webhookWorker", "extractionQueue", "webhookQueue", "connection">>

\* C40: on a termination signal the worker process closes the extraction
\* worker, the webhook worker, the queue handles and last the Redis
\* connection, in this order, and no queue handle and no connection is closed
\* while a job is still being processed.
C40_ShutdownOrder ==
  /\ Len(down.closed) <= Len(ShutdownOrder)
  /\ down.closed = SubSeq(ShutdownOrder, 1, Len(down.closed))
  /\ (\E i \in DOMAIN down.closed :
         down.closed[i] \in {"extractionQueue", "webhookQueue", "connection"})
       => Processing = {}

\* a signal arrived while a job was being processed, and the shutdown has
\* run to its end
C40_Witness ==
  /\ down.stage = "exit 0"
  /\ down.busyAtSignal
  /\ down.closed[Len(down.closed)] = "connection"

====
